---- MODULE Spec2Model ----
(***************************************************************************)
(* Model of the adaptive questioning engine: PersonajePredictor            *)
(* (src/ml/predictor.py), GameSession (src/ml/game_session.py) and the     *)
(* play loop of GameController (src/game_controller.py).                   *)
(*                                                                         *)
(* Python strings are sequences of one-character strings, so that          *)
(* str(), lower() and strip() are computed and not assumed.  A feature     *)
(* value is a record [t, s, n]: t = "str" (s is the text), t = "num"       *)
(* (n is the number) or t = "none" (JSON null).  A dict is a sequence of   *)
(* <<key, value>> pairs with distinct keys, in insertion order.            *)
(***************************************************************************)
EXTENDS Integers, Sequences, FiniteSets, TLC

---------------------------------------------------------------------------
(* Bounds of the model *)

\* number of leading entities of a catalog whose features are drawn freely
MaxVariados == 2
\* number of trailing entities of a catalog that share one feature profile
MaxRelleno == 5
\* longest question history explored
MaxHistorial == 2
\* largest attempt counter explored by free calls of intentar_adivinanza
MaxIntentosLibres == 1
\* largest entity collection the predictor's methods are called on directly
MaxEntidades == 2
\* most entities with a value of their own in a truthful play-through's collection
MaxDistintos == 4
\* identical entities that fill a truthful play-through's collection, enough
\* for the confidence to reach 0.7 while MaxDistintos candidates remain
RellenoVeraz == 10

---------------------------------------------------------------------------
(* Python values and strings *)

StrVal(s) == [t |-> "str", s |-> s, n |-> 0]
NumVal(n) == [t |-> "num", s |-> <<>>, n |-> n]
None == [t |-> "none", s |-> <<>>, n |-> 0]

\* isinstance(valor, (int, float))
EsNumerico(v) == v.t = "num"

Digitos == <<"0", "1", "2", "3", "4", "5", "6", "7", "8", "9">>

RECURSIVE StrNum(_)
StrNum(n) == IF n < 10 THEN <<Digitos[n + 1]>>
             ELSE StrNum(n \div 10) \o <<Digitos[(n % 10) + 1]>>

\* str(valor)
Str(v) == CASE v.t = "str" -> v.s
            [] v.t = "num" -> StrNum(v.n)
            [] OTHER -> <<"N", "o", "n", "e">>

LowerChar(c) == CASE c = "R" -> "r"
                  [] c = "B" -> "b"
                  [] c = "N" -> "n"
                  [] OTHER -> c

\* str.lower()
Lower(s) == [i \in 1..Len(s) |-> LowerChar(s[i])]

RECURSIVE LStrip(_)
LStrip(s) == IF s # <<>> /\ Head(s) = " " THEN LStrip(Tail(s)) ELSE s

RECURSIVE RStrip(_)
RStrip(s) == IF s # <<>> /\ s[Len(s)] = " "
             THEN RStrip(SubSeq(s, 1, Len(s) - 1)) ELSE s

\* str.strip()
Strip(s) == RStrip(LStrip(s))

\* str(valor).lower().strip()
Normalizar(s) == Strip(Lower(s))

\* code points of the characters in use, for the order of sorted()
Ord(c) == CASE c = " " -> 32
            [] c \in {"0", "1", "2", "3", "4", "5", "6", "7", "8", "9"} ->
                 48 + (CHOOSE d \in 0..9 : Digitos[d + 1] = c)
            [] c = "B" -> 66
            [] c = "N" -> 78
            [] c = "R" -> 82
            [] c = "a" -> 97
            [] c = "b" -> 98
            [] c = "c" -> 99
            [] c = "d" -> 100
            [] c = "e" -> 101
            [] c = "n" -> 110
            [] c = "o" -> 111
            [] c = "r" -> 114
            [] c = "x" -> 120
            [] OTHER -> 0

RECURSIVE StrMenor(_, _)
\* a < b for Python strings
StrMenor(a, b) ==
    IF b = <<>> THEN FALSE
    ELSE IF a = <<>> THEN TRUE
    ELSE IF Ord(Head(a)) # Ord(Head(b)) THEN Ord(Head(a)) < Ord(Head(b))
    ELSE StrMenor(Tail(a), Tail(b))

RECURSIVE Sorted(_)
\* sorted(list(valores)) of a set of strings
Sorted(S) ==
    IF S = {} THEN <<>>
    ELSE LET m == CHOOSE x \in S : \A y \in S \ {x} : StrMenor(x, y)
         IN <<m>> \o Sorted(S \ {m})

---------------------------------------------------------------------------
(* dict access *)

Claves(d) == {d[i][1] : i \in 1..Len(d)}

\* d.get(k): the value stored under k, None when the key is missing
Get(d, k) == IF k \in Claves(d)
             THEN d[CHOOSE i \in 1..Len(d) : d[i][1] = k][2]
             ELSE None

\* d[k] = v on an insertion-ordered dict
Put(d, k, v) == IF k \in Claves(d)
                THEN LET i == CHOOSE j \in 1..Len(d) : d[j][1] = k
                     IN SubSeq(d, 1, i - 1) \o <<<<k, v>>>> \o SubSeq(d, i + 1, Len(d))
                ELSE Append(d, <<k, v>>)

---------------------------------------------------------------------------
(* PersonajePredictor: pure helpers, src/ml/predictor.py *)

\* personaje.get('caracteristicas', {}).get(caracteristica)
ValorDe(personaje, caracteristica) == Get(personaje.caracteristicas, caracteristica)

RECURSIVE ExtraerDeItems(_, _)
\* inner loop of _extraer_caracteristicas over one entity's items
ExtraerDeItems(items, disponibles) ==
    IF items = <<>> THEN disponibles
    ELSE LET clave == Head(items)[1]
             valor == Head(items)[2]
         IN IF EsNumerico(valor)
            THEN ExtraerDeItems(Tail(items), disponibles)
            ELSE LET previos == IF clave \in Claves(disponibles)
                                THEN Get(disponibles, clave) ELSE {}
                     valor_str == Normalizar(Str(valor))
                 IN ExtraerDeItems(Tail(items),
                        Put(disponibles, clave, previos \cup {valor_str}))

RECURSIVE ExtraerDePersonajes(_, _)
\* outer loop of _extraer_caracteristicas: the catalog is updated entity by
\* entity, each update completed before the next entity is visited
ExtraerDePersonajes(ps, disponibles) ==
    IF ps = <<>> THEN disponibles
    ELSE LET siguientes == ExtraerDeItems(Head(ps).caracteristicas, disponibles)
         IN IF siguientes = <<>> THEN ExtraerDePersonajes(Tail(ps), <<>>)
            ELSE ExtraerDePersonajes(Tail(ps), siguientes)

\* _extraer_caracteristicas: the Feature Catalog of an entity collection
ExtraerCaracteristicas(ps) == ExtraerDePersonajes(ps, <<>>)

\* obtener_caracteristicas: feature -> sorted list of its values
ObtenerCaracteristicas(disponibles) ==
    [i \in 1..Len(disponibles) |-> <<disponibles[i][1], Sorted(disponibles[i][2])>>]

\* obtener_valores_posibles without "valor is not None": the text of a
\* missing or null value is listed
ObtenerValoresPosiblesConNulos(caracteristica, candidatos) ==
    Sorted({Normalizar(Str(ValorDe(candidatos[i], caracteristica))) :
              i \in {j \in 1..Len(candidatos) :
                        ~EsNumerico(ValorDe(candidatos[j], caracteristica))}})

\* obtener_valores_posibles(caracteristica, personajes_candidatos)
ObtenerValoresPosibles(caracteristica, candidatos) ==
    Sorted({Normalizar(Str(ValorDe(candidatos[i], caracteristica))) :
              i \in {j \in 1..Len(candidatos) :
                        /\ ValorDe(candidatos[j], caracteristica) # None
                        /\ ~EsNumerico(ValorDe(candidatos[j], caracteristica))}})

\* Entropies are kept in fixed point.  XLog2Micro[k] is k * log2(k) in
\* millionths of a bit; Escala is one bit.
Escala == 1000000
XLog2Micro == <<0, 2000000, 4754888, 8000000, 11609640, 15509775,
                19651484, 24000000, 28529325, 33219281, 38053748, 43019550,
                48105716, 53302969, 58603359, 64000000, 69486868, 75058650>>

\* Counter(p['nombre'] for p in personajes_candidatos)
Contador(candidatos) ==
    [nombre \in {candidatos[i].nombre : i \in 1..Len(candidatos)} |->
        Cardinality({i \in 1..Len(candidatos) : candidatos[i].nombre = nombre})]

RECURSIVE SumaXLog2(_, _)
SumaXLog2(contador, nombres) ==
    IF nombres = {} THEN 0
    ELSE LET nombre == CHOOSE x \in nombres : TRUE
         IN XLog2Micro[contador[nombre]] + SumaXLog2(contador, nombres \ {nombre})

\* len(candidatos) * calcular_entropia(candidatos), in millionths of a bit:
\* n * sum(-(c/n) * log2(c/n)) = n*log2(n) - sum(c*log2(c))
EntropiaPorTotal(candidatos) ==
    IF candidatos = <<>> THEN 0
    ELSE XLog2Micro[Len(candidatos)]
           - SumaXLog2(Contador(candidatos), DOMAIN Contador(candidatos))

\* calcular_entropia, in millionths of a bit
CalcularEntropia(candidatos) ==
    IF candidatos = <<>> THEN 0
    ELSE EntropiaPorTotal(candidatos) \div Len(candidatos)

\* the test of calcular_ganancia_binaria and filtrar_personajes_binario:
\* the entity's value is present and its normalized text equals the
\* normalized asked value
TieneValor(personaje, caracteristica, valor) ==
    LET valor_personaje == ValorDe(personaje, caracteristica)
    IN IF valor_personaje = None THEN FALSE
       ELSE Normalizar(Str(valor_personaje)) = Normalizar(valor)

\* grupo_si and grupo_no of calcular_ganancia_binaria
GrupoSi(candidatos, caracteristica, valor) ==
    LET T(p) == TieneValor(p, caracteristica, valor) IN SelectSeq(candidatos, T)

\* grupo_no without the candidates whose valor_personaje is None
GrupoNoSinFaltantes(candidatos, caracteristica, valor) ==
    LET T(p) == /\ ValorDe(p, caracteristica) # None
                /\ ~TieneValor(p, caracteristica, valor)
    IN SelectSeq(candidatos, T)

GrupoNo(candidatos, caracteristica, valor) ==
    LET T(p) == ~TieneValor(p, caracteristica, valor) IN SelectSeq(candidatos, T)

\* the gain without "if grupo_no: entropia_ponderada += ..."
GananciaSoloGrupoSi(candidatos, caracteristica, valor) ==
    IF candidatos = <<>> THEN 0
    ELSE EntropiaPorTotal(candidatos)
           - EntropiaPorTotal(GrupoSi(candidatos, caracteristica, valor))

\* len(candidatos) * calcular_ganancia_binaria(...), in millionths of a bit:
\* total * (entropia_inicial - peso_si*H(si) - peso_no*H(no))
GananciaBinariaPorTotal(candidatos, caracteristica, valor) ==
    IF candidatos = <<>> THEN 0
    ELSE EntropiaPorTotal(candidatos)
           - EntropiaPorTotal(GrupoSi(candidatos, caracteristica, valor))
           - EntropiaPorTotal(GrupoNo(candidatos, caracteristica, valor))

\* calcular_ganancia_binaria, in millionths of a bit
CalcularGananciaBinaria(candidatos, caracteristica, valor) ==
    IF candidatos = <<>> THEN 0
    ELSE GananciaBinariaPorTotal(candidatos, caracteristica, valor) \div Len(candidatos)

RECURSIVE ParesDe(_, _)
ParesDe(caracteristica, valores) ==
    IF valores = <<>> THEN <<>>
    ELSE <<<<caracteristica, Head(valores)>>>> \o ParesDe(caracteristica, Tail(valores))

RECURSIVE ParesEnOrden(_, _)
\* the (caracteristica, valor) pairs in the order the two loops of
\* seleccionar_mejor_pregunta_binaria visit them
ParesEnOrden(disponibles, candidatos) ==
    IF disponibles = <<>> THEN <<>>
    ELSE ParesDe(Head(disponibles)[1],
                 ObtenerValoresPosibles(Head(disponibles)[1], candidatos))
           \o ParesEnOrden(Tail(disponibles), candidatos)

RECURSIVE MejorEntreSinSaltar(_, _, _, _, _)
\* the scan without "if (caracteristica, valor) in preguntas_realizadas"
MejorEntreSinSaltar(pares, candidatos, realizadas, mejor, mejor_ganancia) ==
    IF pares = <<>> THEN mejor
    ELSE LET ganancia == GananciaBinariaPorTotal(candidatos,
                              Head(pares)[1], Head(pares)[2])
         IN IF ganancia > mejor_ganancia
            THEN MejorEntreSinSaltar(Tail(pares), candidatos, realizadas,
                                     <<Head(pares)>>, ganancia)
            ELSE MejorEntreSinSaltar(Tail(pares), candidatos, realizadas,
                                     mejor, mejor_ganancia)

RECURSIVE MejorEntreUltimoGana(_, _, _, _, _)
\* the scan with "if ganancia >= mejor_ganancia"
MejorEntreUltimoGana(pares, candidatos, realizadas, mejor, mejor_ganancia) ==
    IF pares = <<>> THEN mejor
    ELSE IF Head(pares) \in realizadas
         THEN MejorEntreUltimoGana(Tail(pares), candidatos, realizadas,
                                   mejor, mejor_ganancia)
         ELSE LET ganancia == GananciaBinariaPorTotal(candidatos,
                                   Head(pares)[1], Head(pares)[2])
              IN IF ganancia >= mejor_ganancia
                 THEN MejorEntreUltimoGana(Tail(pares), candidatos, realizadas,
                                           <<Head(pares)>>, ganancia)
                 ELSE MejorEntreUltimoGana(Tail(pares), candidatos, realizadas,
                                           mejor, mejor_ganancia)

RECURSIVE MejorEntre(_, _, _, _, _)
\* the scan: mejor is <<pair>> or <<>> (None), mejor_ganancia its gain
MejorEntre(pares, candidatos, realizadas, mejor, mejor_ganancia) ==
    IF pares = <<>> THEN mejor
    ELSE IF Head(pares) \in realizadas
         THEN MejorEntre(Tail(pares), candidatos, realizadas, mejor, mejor_ganancia)
         ELSE LET ganancia == GananciaBinariaPorTotal(candidatos,
                                   Head(pares)[1], Head(pares)[2])
              IN IF ganancia > mejor_ganancia
                 THEN MejorEntre(Tail(pares), candidatos, realizadas,
                                 <<Head(pares)>>, ganancia)
                 ELSE MejorEntre(Tail(pares), candidatos, realizadas,
                                 mejor, mejor_ganancia)

\* seleccionar_mejor_pregunta_binaria: <<pair>>, or <<>> for None
SeleccionarMejorPreguntaBinaria(disponibles, candidatos, realizadas) ==
    IF candidatos = <<>> THEN <<>>
    ELSE MejorEntre(ParesEnOrden(disponibles, candidatos), candidatos,
                    realizadas, <<>>, -1 * Escala * Len(candidatos))

\* filtrar_personajes_binario without "valor = valor.lower().strip()"
FiltrarSinNormalizarPregunta(candidatos, caracteristica, valor, respuesta_binaria) ==
    LET Incluir(personaje) ==
          IF ValorDe(personaje, caracteristica) = None
          THEN ~respuesta_binaria
          ELSE (Normalizar(Str(ValorDe(personaje, caracteristica))) = valor)
                  = respuesta_binaria
    IN SelectSeq(candidatos, Incluir)

RECURSIVE Invertir(_)
Invertir(s) == IF s = <<>> THEN <<>> ELSE Append(Invertir(Tail(s)), Head(s))

\* filtrar_personajes_binario building its list with insert(0, personaje)
FiltrarInvertido(candidatos, caracteristica, valor, respuesta_binaria) ==
    LET Incluir(personaje) ==
          IF ValorDe(personaje, caracteristica) = None
          THEN ~respuesta_binaria
          ELSE (Normalizar(Str(ValorDe(personaje, caracteristica)))
                  = Normalizar(valor)) = respuesta_binaria
    IN Invertir(SelectSeq(candidatos, Incluir))

\* filtrar_personajes_binario skipping, as filtrar_personajes does, every
\* entity without the feature
FiltrarDescartaFaltantes(candidatos, caracteristica, valor, respuesta_binaria) ==
    LET Incluir(personaje) ==
          IF ValorDe(personaje, caracteristica) = None
          THEN FALSE
          ELSE (Normalizar(Str(ValorDe(personaje, caracteristica)))
                  = Normalizar(valor)) = respuesta_binaria
    IN SelectSeq(candidatos, Incluir)

\* filtrar_personajes_binario returning candidatos_filtrados[1:]
FiltrarSinElPrimero(candidatos, caracteristica, valor, respuesta_binaria) ==
    LET Incluir(personaje) ==
          IF ValorDe(personaje, caracteristica) = None
          THEN ~respuesta_binaria
          ELSE (Normalizar(Str(ValorDe(personaje, caracteristica)))
                  = Normalizar(valor)) = respuesta_binaria
        filtrados == SelectSeq(candidatos, Incluir)
    IN IF filtrados = <<>> THEN <<>> ELSE Tail(filtrados)

\* filtrar_personajes_binario
FiltrarPersonajesBinario(candidatos, caracteristica, valor, respuesta_binaria) ==
    LET Incluir(personaje) ==
          IF ValorDe(personaje, caracteristica) = None
          THEN ~respuesta_binaria
          ELSE (Normalizar(Str(ValorDe(personaje, caracteristica)))
                  = Normalizar(valor)) = respuesta_binaria
    IN SelectSeq(candidatos, Incluir)

\* hacer_prediccion returning the last of several candidates
HacerPrediccionUltimo(candidatos) ==
    IF candidatos = <<>> THEN <<>>
    ELSE IF Len(candidatos) = 1 THEN <<candidatos[1]>>
    ELSE <<candidatos[Len(candidatos)]>>

\* hacer_prediccion: <<entity>>, or <<>> for None
HacerPrediccion(candidatos) ==
    IF candidatos = <<>> THEN <<>>
    ELSE IF Len(candidatos) = 1 THEN <<candidatos[1]>>
    ELSE <<candidatos[1]>>

\* obtener_confianza without "if candidatos == 1: return 1.0"
ObtenerConfianzaSinCasoUnico(todos, candidatos) ==
    IF candidatos = <<>> THEN <<0, 1>>
    ELSE <<Len(todos) - Len(candidatos), Len(todos)>>

\* obtener_confianza without "if not personajes_candidatos: return 0.0"
ObtenerConfianzaSinCasoVacio(todos, candidatos) ==
    IF Len(candidatos) = 1 THEN <<1, 1>>
    ELSE <<Len(todos) - Len(candidatos), Len(todos)>>

\* obtener_confianza as the exact fraction <<numerator, denominator>>:
\* 0.0, 1.0 or 1.0 - candidatos / total_personajes
ObtenerConfianzaPredictor(todos, candidatos) ==
    IF candidatos = <<>> THEN <<0, 1>>
    ELSE IF Len(candidatos) = 1 THEN <<1, 1>>
    ELSE <<Len(todos) - Len(candidatos), Len(todos)>>

---------------------------------------------------------------------------
(* The catalogs the model starts from: data/personajes.json *)

ValoresColor == {StrVal(<<" ", "R">>), None}
ValoresEdad == {NumVal(7)}

\* the feature dicts an entity may carry: each key present or missing
Perfiles ==
    {color \o edad :
        color \in {<<>>} \cup {<<<<"color", v>>>> : v \in ValoresColor},
        edad \in {<<>>} \cup {<<<<"edad", v>>>> : v \in ValoresEdad}}

PerfilRelleno == <<<<"color", StrVal(<<"r">>)>>, <<"edad", StrVal(<<"7">>)>>>>

Nombres == <<"p1", "p2", "p3", "p4", "p5", "p6", "p7", "p8", "p9",
             "p10", "p11", "p12", "p13", "p14", "p15", "p16">>

\* entities named by position, so that names are unique in a catalog
Nombrar(perfiles) ==
    [i \in 1..Len(perfiles) |-> [nombre |-> Nombres[i], caracteristicas |-> perfiles[i]]]

Catalogos ==
    {Nombrar(variados \o [i \in 1..relleno |-> PerfilRelleno]) :
        variados \in UNION {[1..n -> Perfiles] : n \in 0..MaxVariados},
        relleno \in {0, MaxRelleno}}

\* (caracteristica, valor) pairs a caller may pass besides the question the
\* session yielded: a value that is not normalized
PreguntasExternas == {<<"color", <<"R", " ">>>>}

\* the entity a reload may bring in
NombreNuevo == "nuevo"
PerfilesNuevos == {<<<<"color", StrVal(<<"b">>)>>, <<"edad", StrVal(<<"7">>)>>>>}

---------------------------------------------------------------------------
(* State *)

VARIABLES
    personajes,                 \* PersonajePredictor.personajes
    caracteristicas_disponibles,\* PersonajePredictor.caracteristicas_disponibles
    personajes_candidatos,      \* GameSession.personajes_candidatos
    preguntas_realizadas,       \* GameSession.preguntas_realizadas
    historial_preguntas,        \* GameSession.historial_preguntas
    intentos_adivinanza,        \* GameSession.intentos_adivinanza
    instantanea,                \* the collection reiniciar copied the candidates from
    resultado,                  \* what the last call returned: <<value>>, or <<>> for None
    ultima_llamada,             \* the method of session or predictor called last
    db,                         \* DatabaseManager: rows of table personajes, by id
    pc,                         \* where GameController is in its play loop
    pregunta_data,              \* _jugar_partida: the question awaiting an answer
    preguntas_partida,          \* _jugar_partida: its local list preguntas_realizadas
    desenlace,                  \* how the last play-through ended
    argumentos,                 \* what the last direct call of a predictor method was given
    otra_sesion,                \* a second GameSession on the predictor: <<fields>>, or <<>>
    personaje_pensado           \* the name of the entity the player thinks of, or ""

predictor_vars == <<personajes, caracteristicas_disponibles>>
sesion_vars == <<personajes_candidatos, preguntas_realizadas,
                 historial_preguntas, intentos_adivinanza, instantanea>>
control_vars == <<db, pc, pregunta_data, preguntas_partida, desenlace>>
llamada_vars == <<resultado, ultima_llamada>>
vars == <<predictor_vars, sesion_vars, llamada_vars, control_vars, argumentos,
          otra_sesion, personaje_pensado>>

\* GameSession.max_intentos_adivinanza
max_intentos_adivinanza == 3

---------------------------------------------------------------------------
(* GameSession queries, src/ml/game_session.py *)

\* GameSession.obtener_confianza
ObtenerConfianza == ObtenerConfianzaPredictor(personajes, personajes_candidatos)

\* confianza >= 0.8
AlMenosUmbralAlto(confianza) == 10 * confianza[1] >= 8 * confianza[2]

\* confianza >= 0.5
AlMenosUmbralBajo(confianza) == 10 * confianza[1] >= 5 * confianza[2]

\* confianza >= 0.7 on the fraction <<numerator, denominator>>
AlMenosUmbral(confianza) == 10 * confianza[1] >= 7 * confianza[2]

\* obtener_siguiente_pregunta without "if len(self.personajes_candidatos) == 1"
ObtenerSiguientePreguntaSinCasoUnico ==
    IF personajes_candidatos = <<>> THEN <<>>
    ELSE LET pregunta_binaria ==
                 SeleccionarMejorPreguntaBinaria(caracteristicas_disponibles,
                     personajes_candidatos, preguntas_realizadas)
         IN IF pregunta_binaria = <<>> THEN <<>>
            ELSE <<[caracteristica |-> pregunta_binaria[1][1],
                    valor |-> pregunta_binaria[1][2]]>>

\* GameSession.obtener_siguiente_pregunta: <<[caracteristica, valor]>> or <<>>
ObtenerSiguientePregunta ==
    IF personajes_candidatos = <<>> THEN <<>>
    ELSE IF Len(personajes_candidatos) = 1 THEN <<>>
    ELSE LET pregunta_binaria ==
                 SeleccionarMejorPreguntaBinaria(caracteristicas_disponibles,
                     personajes_candidatos, preguntas_realizadas)
         IN IF pregunta_binaria = <<>> THEN <<>>
            ELSE <<[caracteristica |-> pregunta_binaria[1][1],
                    valor |-> pregunta_binaria[1][2]]>>

\* puede_intentar_adivinar answering True for no candidates
PuedeIntentarAdivinarVacio ==
    IF personajes_candidatos = <<>> THEN TRUE
    ELSE IF Len(personajes_candidatos) = 1 THEN TRUE
    ELSE IF AlMenosUmbral(ObtenerConfianza) THEN TRUE
    ELSE IF SeleccionarMejorPreguntaBinaria(caracteristicas_disponibles,
                personajes_candidatos, preguntas_realizadas) = <<>> THEN TRUE
    ELSE FALSE

\* GameSession.puede_intentar_adivinar
PuedeIntentarAdivinar ==
    IF personajes_candidatos = <<>> THEN FALSE
    ELSE IF Len(personajes_candidatos) = 1 THEN TRUE
    ELSE IF AlMenosUmbral(ObtenerConfianza) THEN TRUE
    ELSE IF SeleccionarMejorPreguntaBinaria(caracteristicas_disponibles,
                personajes_candidatos, preguntas_realizadas) = <<>> THEN TRUE
    ELSE FALSE

\* puede_agregar_personaje comparing with > instead of >=
PuedeAgregarPersonajeEstricto == intentos_adivinanza > max_intentos_adivinanza

\* GameSession.puede_agregar_personaje
PuedeAgregarPersonaje == intentos_adivinanza >= max_intentos_adivinanza

---------------------------------------------------------------------------
(* GameSession operations *)

\* reiniciar without "self.intentos_adivinanza = 0"
ReiniciarSinContador ==
    /\ personajes_candidatos' = personajes
    /\ instantanea' = personajes
    /\ preguntas_realizadas' = {}
    /\ historial_preguntas' = <<>>
    /\ resultado' = <<>>
    /\ ultima_llamada' = "reiniciar"
    /\ UNCHANGED intentos_adivinanza

\* GameSession.reiniciar
Reiniciar ==
    /\ personajes_candidatos' = personajes
    /\ instantanea' = personajes
    /\ preguntas_realizadas' = {}
    /\ historial_preguntas' = <<>>
    /\ intentos_adivinanza' = 0
    /\ resultado' = <<>>
    /\ ultima_llamada' = "reiniciar"

\* procesar_respuesta that records in the history only a pair that was not
\* asked before
ProcesarRespuestaSinRepetir(caracteristica, valor, respuesta_binaria) ==
    /\ preguntas_realizadas' = preguntas_realizadas \cup {<<caracteristica, valor>>}
    /\ historial_preguntas' =
           IF <<caracteristica, valor>> \in preguntas_realizadas
           THEN historial_preguntas
           ELSE Append(historial_preguntas,
                    [caracteristica |-> caracteristica, valor |-> valor,
                     respuesta |-> respuesta_binaria])
    /\ personajes_candidatos' = FiltrarPersonajesBinario(personajes_candidatos,
           caracteristica, valor, respuesta_binaria)
    /\ resultado' = <<>>
    /\ ultima_llamada' = "procesar_respuesta"
    /\ UNCHANGED <<intentos_adivinanza, instantanea>>

\* procesar_respuesta without "self.preguntas_realizadas.add(...)"
ProcesarRespuestaSinRegistrar(caracteristica, valor, respuesta_binaria) ==
    /\ historial_preguntas' = Append(historial_preguntas,
           [caracteristica |-> caracteristica, valor |-> valor,
            respuesta |-> respuesta_binaria])
    /\ personajes_candidatos' = FiltrarPersonajesBinario(personajes_candidatos,
           caracteristica, valor, respuesta_binaria)
    /\ resultado' = <<>>
    /\ ultima_llamada' = "procesar_respuesta"
    /\ UNCHANGED <<preguntas_realizadas, intentos_adivinanza, instantanea>>

\* GameSession.procesar_respuesta
ProcesarRespuesta(caracteristica, valor, respuesta_binaria) ==
    /\ preguntas_realizadas' = preguntas_realizadas \cup {<<caracteristica, valor>>}
    /\ historial_preguntas' = Append(historial_preguntas,
           [caracteristica |-> caracteristica, valor |-> valor,
            respuesta |-> respuesta_binaria])
    /\ personajes_candidatos' = FiltrarPersonajesBinario(personajes_candidatos,
           caracteristica, valor, respuesta_binaria)
    /\ resultado' = <<>>
    /\ ultima_llamada' = "procesar_respuesta"
    /\ UNCHANGED <<intentos_adivinanza, instantanea>>

\* intentar_adivinanza that counts an attempt only when there is a
\* prediction to return
IntentarAdivinanzaSoloConPrediccion ==
    /\ intentos_adivinanza' = IF HacerPrediccion(personajes_candidatos) = <<>>
                              THEN intentos_adivinanza
                              ELSE intentos_adivinanza + 1
    /\ resultado' = HacerPrediccion(personajes_candidatos)
    /\ ultima_llamada' = "intentar_adivinanza"
    /\ UNCHANGED <<personajes_candidatos, preguntas_realizadas,
                   historial_preguntas, instantanea>>

\* intentar_adivinanza that takes the entity it returns out of the candidates
IntentarAdivinanzaDescarta ==
    /\ intentos_adivinanza' = intentos_adivinanza + 1
    /\ resultado' = HacerPrediccion(personajes_candidatos)
    /\ ultima_llamada' = "intentar_adivinanza"
    /\ personajes_candidatos' = IF personajes_candidatos = <<>> THEN <<>>
                                ELSE Tail(personajes_candidatos)
    /\ UNCHANGED <<preguntas_realizadas, historial_preguntas, instantanea>>

\* GameSession.intentar_adivinanza; the prediction is returned in resultado
IntentarAdivinanza ==
    /\ intentos_adivinanza' = intentos_adivinanza + 1
    /\ resultado' = HacerPrediccion(personajes_candidatos)
    /\ ultima_llamada' = "intentar_adivinanza"
    /\ UNCHANGED <<personajes_candidatos, preguntas_realizadas,
                   historial_preguntas, instantanea>>

\* cargar_datos whose extraction starts from the catalog it already has
\* instead of an empty one
CargarDatosSinVaciar(nuevos) ==
    /\ personajes' = nuevos
    /\ caracteristicas_disponibles' =
           ExtraerDePersonajes(nuevos, caracteristicas_disponibles)
    /\ resultado' = <<>>
    /\ ultima_llamada' = "cargar_datos"

\* PersonajePredictor.cargar_datos on a file that now holds nuevos
CargarDatos(nuevos) ==
    /\ personajes' = nuevos
    /\ caracteristicas_disponibles' = ExtraerCaracteristicas(nuevos)
    /\ resultado' = <<>>
    /\ ultima_llamada' = "cargar_datos"

---------------------------------------------------------------------------
(* Spec: a caller drives one GameSession through its public methods *)

\* PersonajePredictor() then GameSession(predictor)
Init ==
    /\ personajes \in Catalogos
    /\ caracteristicas_disponibles = ExtraerCaracteristicas(personajes)
    /\ personajes_candidatos = personajes
    /\ instantanea = personajes
    /\ preguntas_realizadas = {}
    /\ historial_preguntas = <<>>
    /\ intentos_adivinanza = 0
    /\ resultado = <<>>
    /\ ultima_llamada = "__init__"
    /\ db = <<>>
    /\ pc = "libre"
    /\ pregunta_data = <<>>
    /\ preguntas_partida = <<>>
    /\ desenlace = ""
    /\ argumentos = <<>>
    /\ otra_sesion = <<>>
    /\ personaje_pensado = ""

\* the pairs a caller passes: the question the session yields, or another
PreguntasPosibles ==
    LET siguiente == ObtenerSiguientePregunta
    IN {<<siguiente[i].caracteristica, siguiente[i].valor>> : i \in 1..Len(siguiente)}
         \cup PreguntasExternas

LlamarProcesarRespuesta ==
    /\ Len(historial_preguntas) < MaxHistorial
    /\ \E pregunta \in PreguntasPosibles, respuesta_binaria \in BOOLEAN :
          ProcesarRespuesta(pregunta[1], pregunta[2], respuesta_binaria)
    /\ UNCHANGED <<predictor_vars, control_vars, argumentos, otra_sesion, personaje_pensado>>

LlamarIntentarAdivinanza ==
    /\ intentos_adivinanza < MaxIntentosLibres
    /\ IntentarAdivinanza
    /\ UNCHANGED <<predictor_vars, control_vars, argumentos, otra_sesion, personaje_pensado>>

\* reiniciar when the asked set and the history are objects every session
\* of the predictor shares: clear() empties them for the other session too
LlamarReiniciarCompartido ==
    /\ Reiniciar
    /\ otra_sesion' =
           IF otra_sesion = <<>> THEN <<>>
           ELSE <<[otra_sesion[1] EXCEPT !.preguntas_realizadas = {},
                                         !.historial_preguntas = <<>>]>>
    /\ UNCHANGED <<predictor_vars, control_vars, argumentos, personaje_pensado>>

LlamarReiniciar ==
    /\ Reiniciar
    /\ UNCHANGED <<predictor_vars, control_vars, argumentos, otra_sesion, personaje_pensado>>

\* the file gained one entity since it was last read
LlamarCargarDatos ==
    /\ \A i \in 1..Len(personajes) : personajes[i].nombre # NombreNuevo
    /\ \E perfil \in PerfilesNuevos :
          CargarDatos(Append(personajes,
              [nombre |-> NombreNuevo, caracteristicas |-> perfil]))
    /\ UNCHANGED <<sesion_vars, control_vars, argumentos, otra_sesion, personaje_pensado>>

Next ==
    \/ LlamarProcesarRespuesta
    \/ LlamarIntentarAdivinanza
    \/ LlamarReiniciar
    \/ LlamarCargarDatos

Spec == Init /\ [][Next]_vars

---------------------------------------------------------------------------
(* DatabaseManager, src/persistence/database.py *)

\* the names in use, in the order of SQLite's ORDER BY nombre
NombresOrdenados == <<"nuevo", "p1", "p10", "p11", "p12", "p13", "p14", "p15", "p16",
                      "p2", "p3", "p4", "p5", "p6", "p7", "p8", "p9">>

PosNombre(nombre) == CHOOSE i \in 1..Len(NombresOrdenados) : NombresOrdenados[i] = nombre

\* obtener_personaje_por_nombre(nombre) finds a row
ExisteEnDb(filas, nombre) == \E i \in 1..Len(filas) : filas[i].nombre = nombre

\* agregar_personaje as INSERT OR REPLACE: an existing name gets the new
\* features and no error is raised
AgregarPersonajeReemplaza(filas, nombre, caracteristicas) ==
    [filas |-> IF ExisteEnDb(filas, nombre)
               THEN [i \in 1..Len(filas) |->
                        IF filas[i].nombre = nombre
                        THEN [nombre |-> nombre, caracteristicas |-> caracteristicas]
                        ELSE filas[i]]
               ELSE Append(filas, [nombre |-> nombre, caracteristicas |-> caracteristicas]),
     error |-> "",
     id |-> IF ExisteEnDb(filas, nombre) THEN Len(filas) ELSE Len(filas) + 1]

\* agregar_personaje: the rows afterwards, the exception raised ("" for
\* none) and the id returned (0 for none); nombre is UNIQUE
AgregarPersonaje(filas, nombre, caracteristicas) ==
    IF ExisteEnDb(filas, nombre)
    THEN [filas |-> filas, error |-> "IntegrityError", id |-> 0]
    ELSE [filas |-> Append(filas, [nombre |-> nombre, caracteristicas |-> caracteristicas]),
          error |-> "", id |-> Len(filas) + 1]

RECURSIVE ImportarDesdeJson(_, _)
\* importar_desde_json: entities without features are counted as errors and
\* skipped, an existing name is updated, any other is inserted
ImportarDesdeJson(datos, filas) ==
    IF datos = <<>> THEN filas
    ELSE LET personaje_data == Head(datos)
         IN IF personaje_data.caracteristicas = <<>>
            THEN ImportarDesdeJson(Tail(datos), filas)
            ELSE IF ExisteEnDb(filas, personaje_data.nombre)
            THEN ImportarDesdeJson(Tail(datos),
                     [i \in 1..Len(filas) |->
                         IF filas[i].nombre = personaje_data.nombre
                         THEN personaje_data ELSE filas[i]])
            ELSE ImportarDesdeJson(Tail(datos), Append(filas, personaje_data))

RECURSIVE OrdenarPorNombre(_)
OrdenarPorNombre(filas) ==
    IF filas = <<>> THEN <<>>
    ELSE LET m == CHOOSE i \in 1..Len(filas) :
                    \A j \in 1..Len(filas) :
                        PosNombre(filas[i].nombre) <= PosNombre(filas[j].nombre)
         IN <<filas[m]>> \o
            OrdenarPorNombre(SubSeq(filas, 1, m - 1) \o SubSeq(filas, m + 1, Len(filas)))

\* exportar_a_json: what the file holds after the export
ExportarAJson(filas) == OrdenarPorNombre(filas)

---------------------------------------------------------------------------
(* SpecPartida: GameController runs play-throughs, src/game_controller.py *)

\* what the player may type when asked for the name that was thought of
NombresTecleados == {"", "p1", NombreNuevo}
\* what the player may type as the value of a feature of a new entity
ValoresTecleados == {<<>>, <<"b">>}
\* what the player may type as the answer to a question
RespuestasTecleadas == {"s", "n", "?"}

\* GameController() and iniciar() on an empty database, up to the menu
InitPartida ==
    /\ personajes \in Catalogos
    /\ caracteristicas_disponibles = ExtraerCaracteristicas(personajes)
    /\ db = ImportarDesdeJson(personajes, <<>>)
    /\ personajes_candidatos = <<>>
    /\ instantanea = <<>>
    /\ preguntas_realizadas = {}
    /\ historial_preguntas = <<>>
    /\ intentos_adivinanza = 0
    /\ resultado = <<>>
    /\ ultima_llamada = "cargar_datos"
    /\ pc = "menu"
    /\ pregunta_data = <<>>
    /\ preguntas_partida = <<>>
    /\ desenlace = ""
    /\ argumentos = <<>>
    /\ otra_sesion = <<>>
    /\ personaje_pensado = ""

\* _jugar_partida up to its loop: GameSession(self.predictor)
JugarPartida ==
    /\ pc = "menu"
    /\ Reiniciar
    /\ preguntas_partida' = <<>>
    /\ pregunta_data' = <<>>
    /\ desenlace' = ""
    /\ pc' = "bucle"
    /\ UNCHANGED <<predictor_vars, db, argumentos, otra_sesion, personaje_pensado>>

\* the part of the loop body from obtener_siguiente_pregunta to the prompt
PedirPregunta ==
    /\ pregunta_data' = ObtenerSiguientePregunta
    /\ IF ObtenerSiguientePregunta = <<>>
       THEN pc' = "menu" /\ desenlace' = "sin_preguntas"
       ELSE pc' = "pregunta" /\ UNCHANGED desenlace

\* loop head when puede_intentar_adivinar() holds: _intentar_adivinanza up
\* to its prompt
TurnoAdivinar ==
    /\ pc = "bucle"
    /\ PuedeIntentarAdivinar
    /\ IntentarAdivinanza
    /\ IF HacerPrediccion(personajes_candidatos) = <<>>
       THEN PedirPregunta
       ELSE pc' = "adivinanza" /\ UNCHANGED <<pregunta_data, desenlace>>
    /\ UNCHANGED <<predictor_vars, db, preguntas_partida, argumentos, otra_sesion, personaje_pensado>>

\* the loop body without "if self.sesion.puede_intentar_adivinar()": the
\* question is fetched whatever the session answers
TurnoPreguntarSiempre ==
    /\ pc = "bucle"
    /\ PedirPregunta
    /\ UNCHANGED <<predictor_vars, sesion_vars, llamada_vars, db, preguntas_partida,
                   argumentos, otra_sesion, personaje_pensado>>

\* loop head when puede_intentar_adivinar() does not hold
TurnoPreguntar ==
    /\ pc = "bucle"
    /\ ~PuedeIntentarAdivinar
    /\ PedirPregunta
    /\ UNCHANGED <<predictor_vars, sesion_vars, llamada_vars, db, preguntas_partida,
                   argumentos, otra_sesion, personaje_pensado>>

\* the answer to "Es correcto?" when _intentar_adivinanza never returns
\* "limite_alcanzado"
ResponderAdivinanzaSinLimite ==
    /\ pc = "adivinanza"
    /\ \E respuesta \in RespuestasTecleadas :
          IF respuesta = "s"
          THEN pc' = "menu" /\ desenlace' = "correcto" /\ UNCHANGED pregunta_data
          ELSE PedirPregunta
    /\ UNCHANGED <<predictor_vars, sesion_vars, llamada_vars, db, preguntas_partida,
                   argumentos, otra_sesion, personaje_pensado>>

\* the player answers "Es correcto?"
ResponderAdivinanza ==
    /\ pc = "adivinanza"
    /\ \E respuesta \in RespuestasTecleadas :
          IF respuesta = "s"
          THEN pc' = "menu" /\ desenlace' = "correcto" /\ UNCHANGED pregunta_data
          ELSE IF PuedeAgregarPersonaje
          THEN pc' = "limite" /\ UNCHANGED <<pregunta_data, desenlace>>
          ELSE PedirPregunta
    /\ UNCHANGED <<predictor_vars, sesion_vars, llamada_vars, db, preguntas_partida,
                   argumentos, otra_sesion, personaje_pensado>>

\* the answer to the question when the controller records it in its list
\* before it validates the text typed
ResponderPreguntaRegistraAntes ==
    /\ pc = "pregunta"
    /\ \E respuesta_str \in RespuestasTecleadas :
          /\ preguntas_partida' = Append(preguntas_partida,
                 [caracteristica |-> pregunta_data[1].caracteristica,
                  valor |-> pregunta_data[1].valor,
                  respuesta |-> (respuesta_str = "s")])
          /\ IF respuesta_str \in {"s", "n"}
             THEN ProcesarRespuesta(pregunta_data[1].caracteristica,
                      pregunta_data[1].valor, respuesta_str = "s")
             ELSE UNCHANGED <<sesion_vars, llamada_vars>>
    /\ pc' = "bucle"
    /\ UNCHANGED <<predictor_vars, db, pregunta_data, desenlace, argumentos,
                   otra_sesion, personaje_pensado>>

\* the player answers the question: a recognised answer is recorded and
\* processed, any other text goes back to the loop head
ResponderPregunta ==
    /\ pc = "pregunta"
    /\ \E respuesta_str \in RespuestasTecleadas :
          IF respuesta_str \in {"s", "n"}
          THEN /\ preguntas_partida' = Append(preguntas_partida,
                      [caracteristica |-> pregunta_data[1].caracteristica,
                       valor |-> pregunta_data[1].valor,
                       respuesta |-> (respuesta_str = "s")])
               /\ ProcesarRespuesta(pregunta_data[1].caracteristica,
                      pregunta_data[1].valor, respuesta_str = "s")
          ELSE UNCHANGED <<preguntas_partida, sesion_vars, llamada_vars>>
    /\ pc' = "bucle"
    /\ UNCHANGED <<predictor_vars, db, pregunta_data, desenlace, argumentos, otra_sesion, personaje_pensado>>

RECURSIVE CaracteristicasTecleadas(_, _)
\* the dict _manejar_limite_intentos builds: one prompt per catalog feature,
\* a blank answer leaves the feature out
CaracteristicasTecleadas(todas, tecleado) ==
    IF todas = <<>> THEN <<>>
    ELSE (IF tecleado[Head(todas)[1]] = <<>> THEN <<>>
          ELSE <<<<Head(todas)[1], StrVal(Normalizar(tecleado[Head(todas)[1]]))>>>>)
         \o CaracteristicasTecleadas(Tail(todas), tecleado)

\* _manejar_limite_intentos when the loop does not break after it: the
\* play-through goes on with the session it has
ManejarLimiteIntentosSinBreak ==
    /\ pc = "limite"
    /\ \E nombre \in NombresTecleados, agregar \in {"s", "n"},
          tecleado \in [Claves(caracteristicas_disponibles) -> ValoresTecleados] :
          IF nombre = "" \/ ExisteEnDb(db, nombre) \/ agregar # "s"
          THEN UNCHANGED <<db, predictor_vars, llamada_vars>>
          ELSE LET agregado == AgregarPersonaje(db, nombre,
                                   CaracteristicasTecleadas(
                                       ObtenerCaracteristicas(caracteristicas_disponibles),
                                       tecleado))
               IN IF agregado.error # ""
                  THEN UNCHANGED <<db, predictor_vars, llamada_vars>>
                  ELSE /\ db' = agregado.filas
                       /\ CargarDatos(ExportarAJson(agregado.filas))
    /\ pc' = "bucle"
    /\ desenlace' = "limite_alcanzado"
    /\ UNCHANGED <<sesion_vars, pregunta_data, preguntas_partida, argumentos, otra_sesion, personaje_pensado>>

\* _manejar_limite_intentos, and the end of the play-through
ManejarLimiteIntentos ==
    /\ pc = "limite"
    /\ \E nombre \in NombresTecleados, agregar \in {"s", "n"},
          tecleado \in [Claves(caracteristicas_disponibles) -> ValoresTecleados] :
          IF nombre = "" \/ ExisteEnDb(db, nombre) \/ agregar # "s"
          THEN UNCHANGED <<db, predictor_vars, llamada_vars>>
          ELSE LET agregado == AgregarPersonaje(db, nombre,
                                   CaracteristicasTecleadas(
                                       ObtenerCaracteristicas(caracteristicas_disponibles),
                                       tecleado))
               IN IF agregado.error # ""
                  THEN UNCHANGED <<db, predictor_vars, llamada_vars>>
                  ELSE /\ db' = agregado.filas
                       /\ CargarDatos(ExportarAJson(agregado.filas))
    /\ pc' = "menu"
    /\ desenlace' = "limite_alcanzado"
    /\ UNCHANGED <<sesion_vars, pregunta_data, preguntas_partida, argumentos, otra_sesion, personaje_pensado>>

\* _salir
Salir ==
    /\ pc = "menu"
    /\ pc' = "salido"
    /\ UNCHANGED <<predictor_vars, sesion_vars, llamada_vars, db, pregunta_data,
                   preguntas_partida, desenlace, argumentos, otra_sesion, personaje_pensado>>

NextPartida ==
    \/ JugarPartida
    \/ TurnoAdivinar
    \/ TurnoPreguntar
    \/ ResponderAdivinanza
    \/ ResponderPregunta
    \/ ManejarLimiteIntentos
    \/ Salir

SpecPartida == InitPartida /\ [][NextPartida]_vars

\* the step of ResponderPregunta in which the text typed is one of the
\* recognised answers
ResponderPreguntaReconocida ==
    ResponderPregunta /\ preguntas_partida' # preguntas_partida

\* a step from the loop head: TurnoAdivinar or TurnoPreguntar, whichever
\* puede_intentar_adivinar() selects, leaves it
PasoDeTurno ==
    pc = "bucle" /\ pc' \in {"adivinanza", "pregunta", "menu"}

\* SpecPartida when the loop of _jugar_partida always takes its next step,
\* the player answers every "Es correcto?", and a player who is asked again
\* and again does at some point type a recognised answer
SpecPartidaJusta ==
    /\ SpecPartida
    /\ WF_pc(PasoDeTurno)
    /\ WF_vars(ResponderAdivinanza)
    /\ SF_vars(ResponderPreguntaReconocida)

---------------------------------------------------------------------------
(* SpecVeraz: the play-throughs of a player who thinks of an entity of the  *)
(* collection and answers every prompt truthfully for it, as the simulated  *)
(* user of src/test_ml_binario.py does                                      *)

\* the features of the entities that differ from one another
PerfilesVeraces ==
    {<<<<"color", StrVal(<<valor>>)>>>> : valor \in {"a", "b", "c", "d"}}

\* up to MaxDistintos entities with a color of their own choosing, followed
\* by none or by RellenoVeraz entities that are all alike
ColeccionesVeraces ==
    {Nombrar(variados \o [i \in 1..relleno |-> PerfilRelleno]) :
        variados \in UNION {[1..n -> PerfilesVeraces] : n \in 1..MaxDistintos},
        relleno \in {0, RellenoVeraz}}

\* the entity the player thinks of
Pensado ==
    personajes[CHOOSE i \in 1..Len(personajes) : personajes[i].nombre = personaje_pensado]

\* GameController() and iniciar(); the player picks an entity
InitVeraz ==
    /\ personajes \in ColeccionesVeraces
    /\ personaje_pensado \in {personajes[i].nombre : i \in 1..Len(personajes)}
    /\ caracteristicas_disponibles = ExtraerCaracteristicas(personajes)
    /\ db = ImportarDesdeJson(personajes, <<>>)
    /\ personajes_candidatos = <<>>
    /\ instantanea = <<>>
    /\ preguntas_realizadas = {}
    /\ historial_preguntas = <<>>
    /\ intentos_adivinanza = 0
    /\ resultado = <<>>
    /\ ultima_llamada = "cargar_datos"
    /\ pc = "menu"
    /\ pregunta_data = <<>>
    /\ preguntas_partida = <<>>
    /\ desenlace = ""
    /\ argumentos = <<>>
    /\ otra_sesion = <<>>

\* the player answers "Es correcto?" with s exactly when the name shown is
\* the one thought of
ResponderAdivinanzaVeraz ==
    /\ pc = "adivinanza"
    /\ LET respuesta == IF resultado[1].nombre = personaje_pensado THEN "s" ELSE "n"
       IN IF respuesta = "s"
          THEN pc' = "menu" /\ desenlace' = "correcto" /\ UNCHANGED pregunta_data
          ELSE IF PuedeAgregarPersonaje
          THEN pc' = "limite" /\ UNCHANGED <<pregunta_data, desenlace>>
          ELSE PedirPregunta
    /\ UNCHANGED <<predictor_vars, sesion_vars, llamada_vars, db, preguntas_partida,
                   argumentos, otra_sesion, personaje_pensado>>

\* the player answers the question with s exactly when the entity thought
\* of has the value asked
ResponderPreguntaVeraz ==
    /\ pc = "pregunta"
    /\ LET respuesta_binaria == TieneValor(Pensado, pregunta_data[1].caracteristica,
                                           pregunta_data[1].valor)
       IN /\ preguntas_partida' = Append(preguntas_partida,
                 [caracteristica |-> pregunta_data[1].caracteristica,
                  valor |-> pregunta_data[1].valor,
                  respuesta |-> respuesta_binaria])
          /\ ProcesarRespuesta(pregunta_data[1].caracteristica,
                 pregunta_data[1].valor, respuesta_binaria)
    /\ pc' = "bucle"
    /\ UNCHANGED <<predictor_vars, db, pregunta_data, desenlace, argumentos,
                   otra_sesion, personaje_pensado>>

\* _manejar_limite_intentos when the player types the name thought of
LimiteVeraz ==
    /\ pc = "limite"
    /\ \E agregar \in {"s", "n"},
          tecleado \in [Claves(caracteristicas_disponibles) -> ValoresTecleados] :
          IF ExisteEnDb(db, personaje_pensado) \/ agregar # "s"
          THEN UNCHANGED <<db, predictor_vars, llamada_vars>>
          ELSE LET agregado == AgregarPersonaje(db, personaje_pensado,
                                   CaracteristicasTecleadas(
                                       ObtenerCaracteristicas(caracteristicas_disponibles),
                                       tecleado))
               IN IF agregado.error # ""
                  THEN UNCHANGED <<db, predictor_vars, llamada_vars>>
                  ELSE /\ db' = agregado.filas
                       /\ CargarDatos(ExportarAJson(agregado.filas))
    /\ pc' = "menu"
    /\ desenlace' = "limite_alcanzado"
    /\ UNCHANGED <<sesion_vars, pregunta_data, preguntas_partida, argumentos,
                   otra_sesion, personaje_pensado>>

NextVeraz ==
    \/ JugarPartida
    \/ TurnoAdivinar
    \/ TurnoPreguntar
    \/ ResponderAdivinanzaVeraz
    \/ ResponderPreguntaVeraz
    \/ LimiteVeraz
    \/ Salir

SpecVeraz == InitVeraz /\ [][NextVeraz]_vars

---------------------------------------------------------------------------
(* SpecBase: the store is filled from a data file; then entities are added  *)
(* to it by direct calls of agregar_personaje and by the steps of the       *)
(* limit workflow that read and write the store                             *)

\* the names a caller passes or the player types
NombresBase == {"p1", "p2", NombreNuevo}

\* the arguments of a call on the store
ArgumentosBase(nombre, caracteristicas) ==
    <<[nombre |-> nombre, caracteristicas |-> caracteristicas]>>

\* the data files of two entities
ArchivosBase == {Nombrar(variados) : variados \in [1..2 -> Perfiles]}

\* DatabaseManager() and importar_desde_json on an empty database
InitBase ==
    /\ personajes \in ArchivosBase
    /\ caracteristicas_disponibles = ExtraerCaracteristicas(personajes)
    /\ db = ImportarDesdeJson(personajes, <<>>)
    /\ personajes_candidatos = <<>>
    /\ instantanea = <<>>
    /\ preguntas_realizadas = {}
    /\ historial_preguntas = <<>>
    /\ intentos_adivinanza = 0
    /\ resultado = <<>>
    /\ ultima_llamada = "importar_desde_json"
    /\ pc = "base"
    /\ pregunta_data = <<>>
    /\ preguntas_partida = <<>>
    /\ desenlace = ""
    /\ argumentos = <<>>
    /\ otra_sesion = <<>>
    /\ personaje_pensado = ""

\* db.agregar_personaje(nombre, caracteristicas)
LlamarAgregarPersonaje ==
    /\ pc = "base"
    /\ \E nombre \in NombresBase, caracteristicas \in PerfilesNuevos \cup {<<>>} :
          LET agregado == AgregarPersonaje(db, nombre, caracteristicas)
          IN /\ db' = agregado.filas
             /\ resultado' = <<[error |-> agregado.error, id |-> agregado.id]>>
             /\ argumentos' = ArgumentosBase(nombre, caracteristicas)
    /\ ultima_llamada' = "agregar_personaje"
    /\ UNCHANGED <<predictor_vars, sesion_vars, pc, pregunta_data, preguntas_partida,
                   desenlace, otra_sesion, personaje_pensado>>

\* _manejar_limite_intentos as far as the store goes: the name is looked
\* up, and added only when it is new and the player agrees
LimiteSobreLaBase ==
    /\ pc = "base"
    /\ \E nombre \in NombresBase \cup {""}, agregar \in {"s", "n"},
          caracteristicas \in PerfilesNuevos \cup {<<>>} :
          /\ db' = IF nombre = "" \/ ExisteEnDb(db, nombre) \/ agregar # "s"
                   THEN db
                   ELSE AgregarPersonaje(db, nombre, caracteristicas).filas
          /\ argumentos' = ArgumentosBase(nombre, caracteristicas)
    /\ resultado' = <<>>
    /\ ultima_llamada' = "_manejar_limite_intentos"
    /\ UNCHANGED <<predictor_vars, sesion_vars, pc, pregunta_data, preguntas_partida,
                   desenlace, otra_sesion, personaje_pensado>>

NextBase ==
    \/ LlamarAgregarPersonaje
    \/ LimiteSobreLaBase

SpecBase == InitBase /\ [][NextBase]_vars

---------------------------------------------------------------------------
(* SpecPredictor: a caller loads a data file, may reload it, and makes one  *)
(* direct call of a method of PersonajePredictor; pc is "directo" before    *)
(* the call and "devuelto" once it has returned                             *)

\* the feature dicts of an entity of a data file that was written by hand
ValoresColorPredictor == {StrVal(<<" ", "R">>), StrVal(<<"b">>), None}
ValoresEdadPredictor == {NumVal(7), StrVal(<<"7">>)}

PerfilesPredictor ==
    {color \o edad :
        color \in {<<>>} \cup {<<<<"color", v>>>> : v \in ValoresColorPredictor},
        edad \in {<<>>} \cup {<<<<"edad", v>>>> : v \in ValoresEdadPredictor}}

\* the file is not checked for repeated names: an entity carries the name of
\* its position, and the second entity may repeat the name of the first
ColeccionesPredictor ==
    {coleccion \in UNION {[1..n -> [nombre : {Nombres[i] : i \in 1..MaxEntidades},
                                     caracteristicas : PerfilesPredictor]] :
                            n \in 0..MaxEntidades} :
        \A i \in 1..Len(coleccion) :
            \/ coleccion[i].nombre = Nombres[i]
            \/ i = 2 /\ coleccion[i].nombre = Nombres[1]}

\* the candidate lists a caller passes: the collection without its first k
Sufijos(lista) == {SubSeq(lista, k + 1, Len(lista)) : k \in 0..Len(lista)}

\* the (caracteristica, valor) pairs a caller passes to gain and filter
PreguntasPredictor ==
    {<<"color", <<"R", " ">>>>, <<"color", <<"b">>>>,
     <<"color", <<"n", "o", "n", "e">>>>, <<"edad", <<"7">>>>}

\* the pairs a caller may hold in preguntas_realizadas
RealizadasPredictor == {<<"color", <<"r">>>>, <<"color", <<"b">>>>, <<"edad", <<"7">>>>}

\* A Python set has no defined iteration order.  An order is a sequence that
\* enumerates the strings in use; list(valores) follows it.  The values of
\* color may come in either order; "7" is never in a set with another string.
OrdenesDeConjunto ==
    {orden \o <<<<"7">>>> :
        orden \in {o \in [1..2 -> {<<"r">>, <<"b">>}] : o[1] # o[2]}}

\* list(valores) when the set is iterated in the order orden
ListaSegun(valores, orden) ==
    LET Esta(x) == x \in valores IN SelectSeq(orden, Esta)

RECURSIVE Insertar(_, _)
Insertar(x, lista) ==
    IF lista = <<>> THEN <<x>>
    ELSE IF StrMenor(x, Head(lista)) THEN <<x>> \o lista
    ELSE <<Head(lista)>> \o Insertar(x, Tail(lista))

RECURSIVE SortedLista(_)
\* sorted(lista) of a list of strings
SortedLista(lista) ==
    IF lista = <<>> THEN <<>>
    ELSE Insertar(Head(lista), SortedLista(Tail(lista)))

\* the set valores collected from self.personajes whatever list is passed
ValoresDeLaColeccion(caracteristica, candidatos) ==
    {Normalizar(Str(ValorDe(personajes[i], caracteristica))) :
        i \in {j \in 1..Len(personajes) :
                  /\ ValorDe(personajes[j], caracteristica) # None
                  /\ ~EsNumerico(ValorDe(personajes[j], caracteristica))}}

\* the set valores that obtener_valores_posibles collects
ValoresDeCandidatos(caracteristica, candidatos) ==
    {Normalizar(Str(ValorDe(candidatos[i], caracteristica))) :
        i \in {j \in 1..Len(candidatos) :
                  /\ ValorDe(candidatos[j], caracteristica) # None
                  /\ ~EsNumerico(ValorDe(candidatos[j], caracteristica))}}

\* obtener_valores_posibles returning list(valores) as the set yields it
ValoresPosiblesSinOrdenar(orden, caracteristica, candidatos) ==
    ListaSegun(ValoresDeCandidatos(caracteristica, candidatos), orden)

\* obtener_valores_posibles when the set valores is iterated in the order orden
ValoresPosiblesSegun(orden, caracteristica, candidatos) ==
    SortedLista(ListaSegun(ValoresDeCandidatos(caracteristica, candidatos), orden))

RECURSIVE ParesEnOrdenSegun(_, _, _)
\* the pairs in the order the loops of seleccionar_mejor_pregunta_binaria
\* visit them when sets are iterated in the order orden
ParesEnOrdenSegun(orden, disponibles, candidatos) ==
    IF disponibles = <<>> THEN <<>>
    ELSE ParesDe(Head(disponibles)[1],
                 ValoresPosiblesSegun(orden, Head(disponibles)[1], candidatos))
           \o ParesEnOrdenSegun(orden, Tail(disponibles), candidatos)

\* seleccionar_mejor_pregunta_binaria starting from "mejor_ganancia = 0.0"
SeleccionarDesdeCero(orden, disponibles, candidatos, realizadas) ==
    IF candidatos = <<>> THEN <<>>
    ELSE MejorEntre(ParesEnOrdenSegun(orden, disponibles, candidatos), candidatos,
                    realizadas, <<>>, 0)

\* seleccionar_mejor_pregunta_binaria when sets are iterated in the order orden
SeleccionarSegun(orden, disponibles, candidatos, realizadas) ==
    IF candidatos = <<>> THEN <<>>
    ELSE MejorEntre(ParesEnOrdenSegun(orden, disponibles, candidatos), candidatos,
                    realizadas, <<>>, -1 * Escala * Len(candidatos))

\* the arguments of a direct call; the ones a method does not take are blank
Argumentos(candidatos, realizadas, caracteristica, valor, respuesta_binaria) ==
    <<[candidatos |-> candidatos, realizadas |-> realizadas,
       caracteristica |-> caracteristica, valor |-> valor,
       respuesta_binaria |-> respuesta_binaria]>>

\* PersonajePredictor() on a data file
InitPredictor ==
    /\ personajes \in ColeccionesPredictor
    /\ caracteristicas_disponibles = ExtraerCaracteristicas(personajes)
    /\ personajes_candidatos = <<>>
    /\ instantanea = <<>>
    /\ preguntas_realizadas = {}
    /\ historial_preguntas = <<>>
    /\ intentos_adivinanza = 0
    /\ resultado = <<>>
    /\ ultima_llamada = "__init__"
    /\ db = <<>>
    /\ pc = "directo"
    /\ pregunta_data = <<>>
    /\ preguntas_partida = <<>>
    /\ desenlace = ""
    /\ argumentos = <<>>
    /\ otra_sesion = <<>>
    /\ personaje_pensado = ""

\* predictor.seleccionar_mejor_pregunta_binaria(candidatos, realizadas)
LlamarSeleccionarMejorPreguntaBinaria ==
    /\ pc = "directo"
    /\ pc' = "devuelto"
    /\ \E candidatos \in Sufijos(personajes), realizadas \in SUBSET RealizadasPredictor,
          orden \in OrdenesDeConjunto :
          /\ argumentos' = Argumentos(candidatos, realizadas, "", <<>>, FALSE)
          /\ resultado' = SeleccionarSegun(orden, caracteristicas_disponibles,
                                           candidatos, realizadas)
    /\ ultima_llamada' = "seleccionar_mejor_pregunta_binaria"
    /\ UNCHANGED <<predictor_vars, sesion_vars, db, pregunta_data, preguntas_partida,
                   desenlace, otra_sesion, personaje_pensado>>

\* predictor.calcular_ganancia_binaria(candidatos, caracteristica, valor)
LlamarCalcularGananciaBinaria ==
    /\ pc = "directo"
    /\ pc' = "devuelto"
    /\ \E candidatos \in Sufijos(personajes), pregunta \in PreguntasPredictor :
          /\ argumentos' = Argumentos(candidatos, {}, pregunta[1], pregunta[2], FALSE)
          /\ resultado' = <<CalcularGananciaBinaria(candidatos, pregunta[1], pregunta[2])>>
    /\ ultima_llamada' = "calcular_ganancia_binaria"
    /\ UNCHANGED <<predictor_vars, sesion_vars, db, pregunta_data, preguntas_partida,
                   desenlace, otra_sesion, personaje_pensado>>

\* predictor.filtrar_personajes_binario(candidatos, caracteristica, valor, respuesta)
LlamarFiltrarPersonajesBinario ==
    /\ pc = "directo"
    /\ pc' = "devuelto"
    /\ \E candidatos \in Sufijos(personajes), pregunta \in PreguntasPredictor,
          respuesta_binaria \in BOOLEAN :
          /\ argumentos' = Argumentos(candidatos, {}, pregunta[1], pregunta[2],
                                      respuesta_binaria)
          /\ resultado' = <<FiltrarPersonajesBinario(candidatos, pregunta[1],
                                                     pregunta[2], respuesta_binaria)>>
    /\ ultima_llamada' = "filtrar_personajes_binario"
    /\ UNCHANGED <<predictor_vars, sesion_vars, db, pregunta_data, preguntas_partida,
                   desenlace, otra_sesion, personaje_pensado>>

\* the features a caller asks the values of
CaracteristicasPredictor == {"color", "edad"}

\* predictor.obtener_valores_posibles(caracteristica, candidatos)
LlamarObtenerValoresPosibles ==
    /\ pc = "directo"
    /\ pc' = "devuelto"
    /\ \E candidatos \in Sufijos(personajes), caracteristica \in CaracteristicasPredictor,
          orden \in OrdenesDeConjunto :
          /\ argumentos' = Argumentos(candidatos, {}, caracteristica, <<>>, FALSE)
          /\ resultado' = <<ValoresPosiblesSegun(orden, caracteristica, candidatos)>>
    /\ ultima_llamada' = "obtener_valores_posibles"
    /\ UNCHANGED <<predictor_vars, sesion_vars, db, pregunta_data, preguntas_partida,
                   desenlace, otra_sesion, personaje_pensado>>

\* what the data file may hold at a reload: one entity more, or the
\* collection without its first entity
ArchivosRecargados ==
    (IF /\ Len(personajes) < MaxEntidades
        /\ \A i \in 1..Len(personajes) : personajes[i].nombre # NombreNuevo
     THEN {Append(personajes, [nombre |-> NombreNuevo, caracteristicas |-> perfil]) :
              perfil \in PerfilesNuevos}
     ELSE {})
      \cup (IF personajes # <<>> THEN {Tail(personajes)} ELSE {})

\* predictor.cargar_datos() after the data file changed
RecargarDatos ==
    /\ pc = "directo"
    /\ \E nuevos \in ArchivosRecargados : CargarDatos(nuevos)
    /\ UNCHANGED <<sesion_vars, control_vars, argumentos, otra_sesion, personaje_pensado>>

NextPredictor ==
    \/ LlamarSeleccionarMejorPreguntaBinaria
    \/ LlamarCalcularGananciaBinaria
    \/ LlamarFiltrarPersonajesBinario
    \/ LlamarObtenerValoresPosibles
    \/ RecargarDatos

SpecPredictor == InitPredictor /\ [][NextPredictor]_vars

---------------------------------------------------------------------------
(* SpecSesiones: a caller holds two GameSession objects built on one       *)
(* PersonajePredictor and calls the methods of either.  The first session  *)
(* is the one of Spec; the fields of the second are the record in          *)
(* otra_sesion.                                                            *)

\* the collections of two entities
CatalogosSesiones == {Nombrar(variados) : variados \in [1..2 -> Perfiles]}

\* the fields of a session after reiniciar
SesionReiniciada ==
    [personajes_candidatos |-> personajes, preguntas_realizadas |-> {},
     historial_preguntas |-> <<>>, intentos_adivinanza |-> 0]

\* the second session
Otra == otra_sesion[1]

\* PersonajePredictor(), then GameSession(predictor) twice
InitSesiones ==
    /\ personajes \in CatalogosSesiones
    /\ caracteristicas_disponibles = ExtraerCaracteristicas(personajes)
    /\ personajes_candidatos = personajes
    /\ instantanea = personajes
    /\ preguntas_realizadas = {}
    /\ historial_preguntas = <<>>
    /\ intentos_adivinanza = 0
    /\ resultado = <<>>
    /\ ultima_llamada = "__init__"
    /\ db = <<>>
    /\ pc = "libre"
    /\ pregunta_data = <<>>
    /\ preguntas_partida = <<>>
    /\ desenlace = ""
    /\ argumentos = <<>>
    /\ otra_sesion = <<SesionReiniciada>>
    /\ personaje_pensado = ""

\* obtener_siguiente_pregunta of the second session, as a set of pairs
PreguntasDeOtra ==
    IF Len(Otra.personajes_candidatos) <= 1 THEN {}
    ELSE LET pregunta_binaria ==
                 SeleccionarMejorPreguntaBinaria(caracteristicas_disponibles,
                     Otra.personajes_candidatos, Otra.preguntas_realizadas)
         IN {pregunta_binaria[i] : i \in 1..Len(pregunta_binaria)}

\* procesar_respuesta called on the second session
OtraProcesarRespuesta ==
    /\ Otra.historial_preguntas = <<>>
    /\ \E pregunta \in PreguntasDeOtra \cup PreguntasExternas,
          respuesta_binaria \in BOOLEAN :
          otra_sesion' = <<[Otra EXCEPT
              !.preguntas_realizadas = @ \cup {pregunta},
              !.historial_preguntas = Append(@,
                  [caracteristica |-> pregunta[1], valor |-> pregunta[2],
                   respuesta |-> respuesta_binaria]),
              !.personajes_candidatos = FiltrarPersonajesBinario(@,
                  pregunta[1], pregunta[2], respuesta_binaria)]>>
    /\ resultado' = <<>>
    /\ ultima_llamada' = "otra_sesion.procesar_respuesta"
    /\ UNCHANGED <<predictor_vars, sesion_vars, control_vars, argumentos,
                   personaje_pensado>>

\* intentar_adivinanza called on the second session
OtraIntentarAdivinanza ==
    /\ Otra.intentos_adivinanza = 0
    /\ otra_sesion' = <<[Otra EXCEPT !.intentos_adivinanza = @ + 1]>>
    /\ resultado' = HacerPrediccion(Otra.personajes_candidatos)
    /\ ultima_llamada' = "otra_sesion.intentar_adivinanza"
    /\ UNCHANGED <<predictor_vars, sesion_vars, control_vars, argumentos,
                   personaje_pensado>>

\* reiniciar called on the second session
OtraReiniciar ==
    /\ otra_sesion' = <<SesionReiniciada>>
    /\ resultado' = <<>>
    /\ ultima_llamada' = "otra_sesion.reiniciar"
    /\ UNCHANGED <<predictor_vars, sesion_vars, control_vars, argumentos,
                   personaje_pensado>>

NextSesiones ==
    \/ LlamarProcesarRespuesta
    \/ LlamarIntentarAdivinanza
    \/ LlamarReiniciar
    \/ OtraProcesarRespuesta
    \/ OtraIntentarAdivinanza
    \/ OtraReiniciar

SpecSesiones == InitSesiones /\ [][NextSesiones]_vars

---------------------------------------------------------------------------
(* Properties *)

ParDe(h) == <<h.caracteristica, h.valor>>

\* hasValue as sections 4.2 and 4.4 of the specification state it: the
\* entity has the feature and the normalized text of its value is the
\* normalized asked value
TieneElValor(personaje, caracteristica, valor) ==
    /\ \E i \in 1..Len(personaje.caracteristicas) :
          /\ personaje.caracteristicas[i][1] = caracteristica
          /\ personaje.caracteristicas[i][2] # None
          /\ Strip(Lower(Str(personaje.caracteristicas[i][2]))) = Strip(Lower(valor))

\* the entity with every feature but one removed
SoloCaracteristica(personaje, caracteristica) ==
    LET EsLaClave(item) == item[1] = caracteristica
    IN [nombre |-> personaje.nombre,
        caracteristicas |-> SelectSeq(personaje.caracteristicas, EsLaClave)]

RECURSIVE EsSubsecuencia(_, _)
\* a is b with some elements removed, the others in the same order
EsSubsecuencia(a, b) ==
    IF a = <<>> THEN TRUE
    ELSE IF b = <<>> THEN FALSE
    ELSE IF Head(a) = Head(b) THEN EsSubsecuencia(Tail(a), Tail(b))
    ELSE EsSubsecuencia(a, Tail(b))

\* the entity agrees with every answer of the history
ConsistenteConHistorial(personaje) ==
    \A i \in 1..Len(historial_preguntas) :
        TieneElValor(personaje, historial_preguntas[i].caracteristica,
                     historial_preguntas[i].valor) = historial_preguntas[i].respuesta

\* C1: the filter applied by procesar_respuesta keeps a candidate iff
\* hasValue = answer, where hasValue compares normalized texts and is false
\* for a missing feature, and whether a candidate is kept depends on the
\* asked feature alone.
C1_FiltroGuardaSiTieneValorIgualRespuesta ==
    [][(/\ ultima_llamada' = "procesar_respuesta"
        /\ Len(historial_preguntas') = Len(historial_preguntas) + 1)
       => LET h == historial_preguntas'[Len(historial_preguntas')]
              Guardar(p) == TieneElValor(p, h.caracteristica, h.valor) = h.respuesta
          IN /\ personajes_candidatos' = SelectSeq(personajes_candidatos, Guardar)
             /\ \A i \in 1..Len(personajes_candidatos) :
                   (FiltrarPersonajesBinario(
                        <<SoloCaracteristica(personajes_candidatos[i], h.caracteristica)>>,
                        h.caracteristica, h.valor, h.respuesta) # <<>>)
                   <=> Guardar(personajes_candidatos[i])]_vars

\* a yes to a value that is not normalized kept the entity whose value is
\* another spelling of it and removed an entity without the feature
C1_Testigo ==
    /\ ultima_llamada = "procesar_respuesta"
    /\ Len(historial_preguntas) = 1
    /\ historial_preguntas[1].valor = <<"R", " ">>
    /\ historial_preguntas[1].respuesta
    /\ \E i \in 1..Len(personajes_candidatos) :
          ValorDe(personajes_candidatos[i], "color") = StrVal(<<" ", "R">>)
    /\ \E i \in 1..Len(instantanea) : ValorDe(instantanea[i], "color") = None
    /\ \A i \in 1..Len(personajes_candidatos) :
          ValorDe(personajes_candidatos[i], "color") # None

\* C2: a step that is not a reset leaves the candidates an order-preserving
\* sub-sequence of what they were.
C2_CandidatosSoloSeReducen ==
    [][ultima_llamada' # "reiniciar"
       => EsSubsecuencia(personajes_candidatos', personajes_candidatos)]_vars

\* an answer removed some candidates and left at least two
C2_Testigo ==
    /\ ultima_llamada = "procesar_respuesta"
    /\ Len(personajes_candidatos) >= 2
    /\ Len(personajes_candidatos) < Len(instantanea)

\* C3: the candidates are exactly the entities of the catalog the session
\* was started from that agree with every answer of the history, in catalog
\* order; an entity for which every answer is truthful is still a candidate.
C3_CandidatosSonLosConsistentes ==
    /\ personajes_candidatos = SelectSeq(instantanea, ConsistenteConHistorial)
    /\ \A i \in 1..Len(instantanea) :
          ConsistenteConHistorial(instantanea[i])
          => \E j \in 1..Len(personajes_candidatos) :
                personajes_candidatos[j] = instantanea[i]

\* two answers, the second a no that an entity without the feature survives
C3_Testigo ==
    /\ Len(historial_preguntas) = 2
    /\ ~historial_preguntas[2].respuesta
    /\ Len(personajes_candidatos) < Len(instantanea)
    /\ \E i \in 1..Len(personajes_candidatos) :
          historial_preguntas[2].caracteristica
              \notin Claves(personajes_candidatos[i].caracteristicas)

\* C4: in a play-through the question put to the player is never one of the
\* asked pairs, every answered pair is in the asked set, and no pair occurs
\* twice in the history.
C4_NingunaPreguntaDosVeces ==
    /\ pc = "pregunta" => ParDe(pregunta_data[1]) \notin preguntas_realizadas
    /\ ObtenerSiguientePregunta # <<>>
          => ParDe(ObtenerSiguientePregunta[1]) \notin preguntas_realizadas
    /\ \A i \in 1..Len(historial_preguntas) :
          ParDe(historial_preguntas[i]) \in preguntas_realizadas
    /\ \A i, j \in 1..Len(historial_preguntas) :
          i # j => ParDe(historial_preguntas[i]) # ParDe(historial_preguntas[j])

\* a question is put while an asked pair is still exhibited by a candidate
C4_Testigo ==
    /\ pc = "pregunta"
    /\ \E q \in preguntas_realizadas :
          \E i \in 1..Len(personajes_candidatos) :
              TieneElValor(personajes_candidatos[i], q[1], q[2])

\* C5 as stated: puede_intentar_adivinar is true when no candidate is left.
C5_Original_VacioPermiteAdivinar ==
    personajes_candidatos = <<>> => PuedeIntentarAdivinar

\* C5 amended: puede_intentar_adivinar is false when no candidate is left.
C5_VacioNoPermiteAdivinar ==
    personajes_candidatos = <<>> => ~PuedeIntentarAdivinar

\* the answers removed every candidate
C5_Testigo ==
    /\ personajes_candidatos = <<>>
    /\ historial_preguntas # <<>>
    /\ instantanea # <<>>

\* the pairs a question may be about: values that candidates exhibit for the
\* features of the catalog
ParesRelevantes ==
    {<<caracteristicas_disponibles[k][1],
       Normalizar(Str(ValorDe(personajes_candidatos[i], caracteristicas_disponibles[k][1])))>> :
        <<k, i>> \in {<<k, i>> \in (1..Len(caracteristicas_disponibles))
                                     \X (1..Len(personajes_candidatos)) :
            LET v == ValorDe(personajes_candidatos[i], caracteristicas_disponibles[k][1])
            IN v # None /\ ~EsNumerico(v)}}

C7_Confianza ==
    LET c == ObtenerConfianza
    IN /\ c[2] > 0
       /\ personajes_candidatos = <<>> => c[1] = 0
       /\ Len(personajes_candidatos) = 1 => c[1] = c[2]
       /\ Len(personajes_candidatos) >= 2
             => c[1] * Len(personajes)
                  = (Len(personajes) - Len(personajes_candidatos)) * c[2]

\* several candidates in a session whose collection has grown since it began
C7_Testigo ==
    /\ Len(personajes_candidatos) >= 2
    /\ Len(personajes) # Len(instantanea)
    /\ historial_preguntas # <<>>

\* C8: intentar_adivinanza returns the first candidate when there is one,
\* and nothing when there is none.
C8_AdivinaElPrimero ==
    ultima_llamada = "intentar_adivinanza"
    => resultado = IF personajes_candidatos = <<>> THEN <<>>
                   ELSE <<personajes_candidatos[1]>>

\* a guess made with several candidates left
C8_Testigo ==
    /\ ultima_llamada = "intentar_adivinanza"
    /\ Len(personajes_candidatos) >= 2
    /\ resultado = <<personajes_candidatos[1]>>

\* C9: in a play-through the attempt counter never exceeds 3, the limit
\* outcome is signalled exactly at the rejection of the third guess, and
\* puede_agregar_personaje holds exactly when the counter is at least 3.
C9_LimiteTrasTresIntentos ==
    /\ [](/\ intentos_adivinanza <= 3
          /\ PuedeAgregarPersonaje <=> intentos_adivinanza >= 3
          /\ pc = "limite" => intentos_adivinanza = 3
          /\ desenlace = "limite_alcanzado" => intentos_adivinanza = 3)
    /\ [][pc = "adivinanza" /\ pc' # "adivinanza" /\ desenlace' # "correcto"
          => (pc' = "limite" <=> intentos_adivinanza = 3)]_vars

\* a play-through ended with the limit outcome
C9_Testigo ==
    /\ desenlace = "limite_alcanzado"
    /\ intentos_adivinanza = 3
    /\ pc = "menu"

\* C10: after reiniciar, and after construction, the candidates are the
\* predictor's current collection in its order, the asked set and the
\* history are empty and the attempt counter is 0.
C10_ReiniciarRestaura ==
    ultima_llamada \in {"reiniciar", "__init__"}
    => /\ personajes_candidatos = personajes
       /\ preguntas_realizadas = {}
       /\ historial_preguntas = <<>>
       /\ intentos_adivinanza = 0

\* a reset that took in the entity a reload had added
C10_Testigo ==
    /\ ultima_llamada = "reiniciar"
    /\ \E i \in 1..Len(personajes_candidatos) :
          personajes_candidatos[i].nombre = NombreNuevo

\* the pairs exhibited by a candidate list: a feature of the catalog with the
\* normalized text of a value, neither null nor numeric, of some candidate
ParesExhibidos(disponibles, candidatos) ==
    {<<disponibles[k][1],
       Strip(Lower(Str(Get(candidatos[i].caracteristicas, disponibles[k][1]))))>> :
        <<k, i>> \in {<<k, i>> \in (1..Len(disponibles)) \X (1..Len(candidatos)) :
            LET v == Get(candidatos[i].caracteristicas, disponibles[k][1])
            IN v.t = "str"}}

\* the place of a feature in the insertion order of the catalog
PosCaracteristica(disponibles, caracteristica) ==
    CHOOSE k \in 1..Len(disponibles) : disponibles[k][1] = caracteristica

\* pair a comes before pair b in the iteration order: features in catalog
\* insertion order, then values in sorted order
VaAntes(disponibles, a, b) ==
    \/ PosCaracteristica(disponibles, a[1]) < PosCaracteristica(disponibles, b[1])
    \/ a[1] = b[1] /\ StrMenor(a[2], b[2])

\* the arguments of the call that has just returned
Arg == argumentos[1]

\* the unasked pairs exhibited by the candidates of the call
ParesSinPreguntar ==
    ParesExhibidos(caracteristicas_disponibles, Arg.candidatos) \ Arg.realizadas

\* C11: the pair seleccionar_mejor_pregunta_binaria returns is unasked and
\* exhibited by a candidate, no unasked exhibited pair has a larger gain, and
\* every other unasked exhibited pair of the same gain comes later in the
\* iteration order (catalog insertion order of features, then sorted values).
C11_MejorGananciaYPrimeroEnEmpate ==
    (ultima_llamada = "seleccionar_mejor_pregunta_binaria" /\ resultado # <<>>)
    => /\ resultado[1] \in ParesSinPreguntar
       /\ \A par \in ParesSinPreguntar :
             LET ganancia == GananciaBinariaPorTotal(Arg.candidatos, par[1], par[2])
                 mejor == GananciaBinariaPorTotal(Arg.candidatos,
                              resultado[1][1], resultado[1][2])
             IN /\ ganancia <= mejor
                /\ (ganancia = mejor /\ par # resultado[1])
                      => VaAntes(caracteristicas_disponibles, resultado[1], par)

\* the returned pair was tied with another unasked pair and beat an unasked
\* pair of smaller gain
C11_Testigo ==
    /\ ultima_llamada = "seleccionar_mejor_pregunta_binaria"
    /\ resultado # <<>>
    /\ LET G(par) == GananciaBinariaPorTotal(Arg.candidatos, par[1], par[2])
       IN /\ \E par \in ParesSinPreguntar :
                par # resultado[1] /\ G(par) = G(resultado[1])
          /\ \E par \in ParesSinPreguntar : G(par) < G(resultado[1])

\* C12: seleccionar_mejor_pregunta_binaria returns None exactly when there is
\* no candidate or every pair exhibited by the candidates has been asked; an
\* unasked exhibited pair is returned even when its gain is 0.
C12_NoneSiYSoloSiNoQuedaPar ==
    ultima_llamada = "seleccionar_mejor_pregunta_binaria"
    => (resultado = <<>>
        <=> \/ Arg.candidatos = <<>>
            \/ ParesExhibidos(caracteristicas_disponibles, Arg.candidatos)
                  \subseteq Arg.realizadas)

\* with a pair asked, the only unasked pairs left have gain 0 and one of them
\* is returned
C12_Testigo ==
    /\ ultima_llamada = "seleccionar_mejor_pregunta_binaria"
    /\ resultado # <<>>
    /\ Arg.realizadas \cap ParesExhibidos(caracteristicas_disponibles, Arg.candidatos) # {}
    /\ Len(Arg.candidatos) >= 2
    /\ \A par \in ParesSinPreguntar :
          GananciaBinariaPorTotal(Arg.candidatos, par[1], par[2]) = 0

\* a session on a catalog of one entity, all of it candidate, nothing asked
CatalogoDeUno ==
    /\ Len(personajes) = 1
    /\ personajes_candidatos = personajes
    /\ preguntas_realizadas = {}

\* C13 as stated: on a catalog of one entity seleccionar_mejor_pregunta_binaria,
\* given the whole catalog and no asked pair, returns None.
C13_Original_SelectorDevuelveNone ==
    CatalogoDeUno
    => SeleccionarMejorPreguntaBinaria(caracteristicas_disponibles,
           personajes_candidatos, preguntas_realizadas) = <<>>

\* C13 amended: on a catalog of one entity it is obtener_siguiente_pregunta
\* that returns None; seleccionar_mejor_pregunta_binaria returns None only
\* when the entity exhibits no pair, and otherwise a pair of gain 0.
C13_SesionDevuelveNone ==
    CatalogoDeUno
    => /\ ObtenerSiguientePregunta = <<>>
       /\ LET par == SeleccionarMejorPreguntaBinaria(caracteristicas_disponibles,
                         personajes_candidatos, preguntas_realizadas)
          IN /\ par = <<>> <=> ParesExhibidos(caracteristicas_disponibles,
                                              personajes_candidatos) = {}
             /\ par # <<>> => GananciaBinariaPorTotal(personajes_candidatos,
                                                      par[1][1], par[1][2]) = 0

\* a play-through on a catalog of one entity ran out of questions although
\* the entity exhibits a pair
C13_Testigo ==
    /\ CatalogoDeUno
    /\ desenlace = "sin_preguntas"
    /\ pc = "menu"
    /\ ParesExhibidos(caracteristicas_disponibles, personajes_candidatos) # {}

\* C14: the pair seleccionar_mejor_pregunta_binaria returns is a function of
\* the catalog, the candidate list and the asked set alone: whatever the
\* order in which Python iterates the value sets, the same pair (or None)
\* comes back; and the call leaves collection, catalog and session as they
\* were.
C14_SelectorDeterministaYSinEfectos ==
    [][ultima_llamada' = "seleccionar_mejor_pregunta_binaria"
       => /\ \A orden \in OrdenesDeConjunto :
                SeleccionarSegun(orden, caracteristicas_disponibles,
                    Arg'.candidatos, Arg'.realizadas) = resultado'
          /\ UNCHANGED <<predictor_vars, sesion_vars, db>>]_vars

\* a pair was returned that is tied with another value of the same feature,
\* so that the order in which the values are visited decides
C14_Testigo ==
    /\ ultima_llamada = "seleccionar_mejor_pregunta_binaria"
    /\ resultado # <<>>
    /\ \E par \in ParesSinPreguntar :
          /\ par[1] = resultado[1][1]
          /\ par[2] # resultado[1][2]
          /\ GananciaBinariaPorTotal(Arg.candidatos, par[1], par[2])
               = GananciaBinariaPorTotal(Arg.candidatos, resultado[1][1], resultado[1][2])

\* C15: filtering the list filtrar_personajes_binario returned, with the same
\* feature, value and answer, returns that list again.
C15_FiltrarEsIdempotente ==
    ultima_llamada = "filtrar_personajes_binario"
    => FiltrarPersonajesBinario(resultado[1], Arg.caracteristica, Arg.valor,
                                Arg.respuesta_binaria) = resultado[1]

\* a filter that removed a candidate and kept one without the feature
C15_Testigo ==
    /\ ultima_llamada = "filtrar_personajes_binario"
    /\ Len(resultado[1]) >= 1
    /\ Len(resultado[1]) < Len(Arg.candidatos)
    /\ \E i \in 1..Len(resultado[1]) :
          Arg.caracteristica \notin Claves(resultado[1][i].caracteristicas)

\* C16: after _extraer_caracteristicas every value the catalog lists for a
\* feature is the normalized text of the value some entity of the collection
\* has for that feature.
C16_CatalogoSoloValoresDeEntidades ==
    \A k \in 1..Len(caracteristicas_disponibles) :
        \A valor \in caracteristicas_disponibles[k][2] :
            \E i \in 1..Len(personajes) :
                LET v == Get(personajes[i].caracteristicas,
                             caracteristicas_disponibles[k][1])
                IN v.t = "str" /\ Strip(Lower(v.s)) = valor

\* the entities with every numeric value taken out of their feature dicts
SinNumericos(lista) ==
    LET NoNumerico(item) == item[2].t # "num"
    IN [i \in 1..Len(lista) |->
           [nombre |-> lista[i].nombre,
            caracteristicas |-> SelectSeq(lista[i].caracteristicas, NoNumerico)]]

\* C17: numeric values are invisible: catalog, selected question, gain and
\* filter result are what they would be had every numeric value been taken
\* out of the entities, whatever pair is passed.
C17_NumericosInvisibles ==
    /\ caracteristicas_disponibles = ExtraerCaracteristicas(SinNumericos(personajes))
    /\ ultima_llamada = "seleccionar_mejor_pregunta_binaria"
          => resultado = SeleccionarMejorPreguntaBinaria(caracteristicas_disponibles,
                             SinNumericos(Arg.candidatos), Arg.realizadas)
    /\ ultima_llamada = "calcular_ganancia_binaria"
          => resultado[1] = CalcularGananciaBinaria(SinNumericos(Arg.candidatos),
                                Arg.caracteristica, Arg.valor)
    /\ ultima_llamada = "filtrar_personajes_binario"
          => SinNumericos(resultado[1])
               = FiltrarPersonajesBinario(SinNumericos(Arg.candidatos),
                     Arg.caracteristica, Arg.valor, Arg.respuesta_binaria)

Elementos(lista) == {lista[i] : i \in 1..Len(lista)}

\* C19: for the arguments of a gain or filter call, grupo_si of the gain is
\* the filter result for a yes and grupo_no, with the candidates that miss
\* the feature, is the filter result for a no; every candidate is in exactly
\* one of the two filter results.
C19_GruposSonLaParticionDelFiltro ==
    ultima_llamada \in {"calcular_ganancia_binaria", "filtrar_personajes_binario"}
    => LET si == FiltrarPersonajesBinario(Arg.candidatos, Arg.caracteristica,
                                          Arg.valor, TRUE)
           no == FiltrarPersonajesBinario(Arg.candidatos, Arg.caracteristica,
                                          Arg.valor, FALSE)
       IN /\ GrupoSi(Arg.candidatos, Arg.caracteristica, Arg.valor) = si
          /\ GrupoNo(Arg.candidatos, Arg.caracteristica, Arg.valor) = no
          /\ Elementos(si) \cap Elementos(no) = {}
          /\ Elementos(si) \cup Elementos(no) = Elementos(Arg.candidatos)
          /\ Len(si) + Len(no) = Len(Arg.candidatos)
          /\ \A i \in 1..Len(Arg.candidatos) :
                Arg.caracteristica \notin Claves(Arg.candidatos[i].caracteristicas)
                => Arg.candidatos[i] \in Elementos(no)

\* a gain whose two groups are not empty, grupo_no holding a candidate
\* without the feature
C19_Testigo ==
    /\ ultima_llamada = "calcular_ganancia_binaria"
    /\ GrupoSi(Arg.candidatos, Arg.caracteristica, Arg.valor) # <<>>
    /\ \E i \in 1..Len(Arg.candidatos) :
          Arg.caracteristica \notin Claves(Arg.candidatos[i].caracteristicas)
    /\ resultado[1] > 0

\* C20 as stated: a play-through ends for want of a question only with the
\* attempt counter at 0.
C20_Original_AgotadoSinIntentos ==
    desenlace = "sin_preguntas" => intentos_adivinanza = 0

\* C20 amended: a play-through ends for want of a question only when
\* obtener_siguiente_pregunta has none, with fewer than 3 attempts made; the
\* counter is 0 only if no candidate is left, otherwise a guess was rejected
\* just before.
C20_AgotadoTrasRechazo ==
    desenlace = "sin_preguntas"
    => /\ ObtenerSiguientePregunta = <<>>
       /\ intentos_adivinanza < max_intentos_adivinanza
       /\ intentos_adivinanza = 0 => personajes_candidatos = <<>>
       /\ personajes_candidatos # <<>> => ultima_llamada = "intentar_adivinanza"

\* a play-through ended for want of a question after two rejected guesses,
\* with a candidate left
C20_Testigo ==
    /\ desenlace = "sin_preguntas"
    /\ pc = "menu"
    /\ intentos_adivinanza = 2
    /\ personajes_candidatos # <<>>
    /\ historial_preguntas # <<>>

\* C21: at the loop head puede_intentar_adivinar decides before any question
\* is fetched: when it holds the step is a guess attempt, and a question is
\* put to the player only from a loop head where it does not hold or right
\* after the player rejected the guess of that turn.
C21_AdivinarAntesDePreguntar ==
    /\ [][(pc = "bucle" /\ PuedeIntentarAdivinar)
          => /\ intentos_adivinanza' = intentos_adivinanza + 1
             /\ ultima_llamada' = "intentar_adivinanza"
             /\ pc' # "pregunta"]_vars
    /\ [][(pc # "pregunta" /\ pc' = "pregunta")
          => \/ pc = "bucle" /\ ~PuedeIntentarAdivinar
             \/ pc = "adivinanza" /\ ultima_llamada = "intentar_adivinanza"]_vars

\* a guess is being put to the player with several candidates left and a
\* question still available
C21_Testigo ==
    /\ pc = "adivinanza"
    /\ Len(personajes_candidatos) >= 2
    /\ SeleccionarMejorPreguntaBinaria(caracteristicas_disponibles,
           personajes_candidatos, preguntas_realizadas) # <<>>

\* C22: with two or more candidates the confidence is at least 0.7 only when
\* the candidates are at most 30% of the entity collection; so with fewer
\* than 7 entities a guess is put to the player with two or more candidates
\* only when the selector has no question left.
C22_UmbralSoloConMinoria ==
    Len(personajes_candidatos) >= 2
    => /\ AlMenosUmbral(ObtenerConfianza)
             => 10 * Len(personajes_candidatos) <= 3 * Len(personajes)
       /\ Len(personajes) < 7
             => /\ ~AlMenosUmbral(ObtenerConfianza)
                /\ PuedeIntentarAdivinar
                      <=> SeleccionarMejorPreguntaBinaria(caracteristicas_disponibles,
                              personajes_candidatos, preguntas_realizadas) = <<>>
                /\ pc = "adivinanza"
                      => SeleccionarMejorPreguntaBinaria(caracteristicas_disponibles,
                             personajes_candidatos, preguntas_realizadas) = <<>>

\* in a catalog of six entities a guess is put to the player with several
\* candidates left, after an answer removed some
C22_Testigo ==
    /\ pc = "adivinanza"
    /\ Len(personajes) = 6
    /\ Len(personajes_candidatos) >= 2
    /\ Len(personajes_candidatos) < Len(personajes)

\* C23: an operation of one session changes only that session's candidates,
\* asked set, history and counter: a call on the first session leaves the
\* second session as it was, a call on the second leaves the first as it
\* was, and neither changes the predictor's collection (the entities and
\* their features) or its catalog; the candidates of both sessions remain
\* entities of the collection
C23_SoloLaSesionLlamada ==
    [][/\ personajes' = personajes
       /\ caracteristicas_disponibles' = caracteristicas_disponibles
       /\ ultima_llamada' \in {"procesar_respuesta", "intentar_adivinanza", "reiniciar"}
             => otra_sesion' = otra_sesion
       /\ ultima_llamada' \in {"otra_sesion.procesar_respuesta",
                               "otra_sesion.intentar_adivinanza",
                               "otra_sesion.reiniciar"}
             => sesion_vars' = sesion_vars
       /\ Elementos(personajes_candidatos') \subseteq Elementos(personajes)
       /\ Elementos(otra_sesion'[1].personajes_candidatos) \subseteq Elementos(personajes)
      ]_vars

\* the first session was just restarted while the second one has an answer
\* on record and fewer candidates than the collection
C23_Testigo ==
    /\ otra_sesion # <<>>
    /\ ultima_llamada = "reiniciar"
    /\ otra_sesion[1].preguntas_realizadas # {}
    /\ Len(otra_sesion[1].historial_preguntas) = 1
    /\ Len(otra_sesion[1].personajes_candidatos) < Len(personajes)

\* the normalized values the non-numeric occurrences of a feature take in a
\* collection
ValoresNoNumericos(coleccion, caracteristica) ==
    {Normalizar(Str(item[2])) :
        item \in {it \in UNION {Elementos(coleccion[i].caracteristicas) :
                                   i \in 1..Len(coleccion)} :
                     it[1] = caracteristica /\ ~EsNumerico(it[2])}}

\* the feature names that occur in the collection or in the catalog
CaracteristicasNombradas ==
    Claves(caracteristicas_disponibles)
      \cup UNION {Claves(personajes[i].caracteristicas) : i \in 1..Len(personajes)}

\* C24: after every load and reload the catalog is the one built from the
\* current collection: its features are those with a non-numeric value in
\* some current entity and each holds exactly the normalized non-numeric
\* values of the current entities, nothing of an earlier collection
C24_CatalogoEsElDeLaColeccion ==
    /\ caracteristicas_disponibles = ExtraerCaracteristicas(personajes)
    /\ \A caracteristica \in CaracteristicasNombradas :
          /\ caracteristica \in Claves(caracteristicas_disponibles)
                <=> ValoresNoNumericos(personajes, caracteristica) # {}
          /\ caracteristica \in Claves(caracteristicas_disponibles)
                => Get(caracteristicas_disponibles, caracteristica)
                      = ValoresNoNumericos(personajes, caracteristica)

\* a reload has just read a file that no longer holds the first entity
C24_Testigo ==
    /\ ultima_llamada = "cargar_datos"
    /\ personajes # <<>>
    /\ \A i \in 1..Len(personajes) : personajes[i].nombre # Nombres[1]

\* C25: the collection and the catalog are rebuilt only between sessions.
\* While a play-through runs they are the ones its session was built on; a
\* step that changes them is the limit workflow, leaves the session as it
\* is and ends the play-through; and after a reload the session presents
\* no question and makes no guess: the next step that touches a session is
\* the start of a play-through, which builds the session anew from the
\* reloaded collection
C25_RecargaSoloEntreSesiones ==
    /\ [](pc \in {"bucle", "pregunta", "adivinanza", "limite"}
            => /\ instantanea = personajes
               /\ caracteristicas_disponibles = ExtraerCaracteristicas(instantanea))
    /\ [][predictor_vars' # predictor_vars
            => /\ pc = "limite" /\ pc' = "menu"
               /\ ultima_llamada' = "cargar_datos"
               /\ sesion_vars' = sesion_vars]_vars
    /\ [][ultima_llamada = "cargar_datos"
            => \/ /\ sesion_vars' = sesion_vars
                  /\ ultima_llamada' = ultima_llamada
                  /\ pc' \notin {"bucle", "pregunta", "adivinanza"}
               \/ /\ pc = "menu" /\ pc' = "bucle"
                  /\ ultima_llamada' = "reiniciar"
                  /\ personajes_candidatos' = personajes
                  /\ preguntas_realizadas' = {}
                  /\ historial_preguntas' = <<>>
                  /\ intentos_adivinanza' = 0]_vars

\* a play-through has started with the entity the previous one added
C25_Testigo ==
    /\ pc = "bucle"
    /\ ultima_llamada = "reiniciar"
    /\ \E i \in 1..Len(personajes_candidatos) :
          personajes_candidatos[i].nombre = NombreNuevo

\* C26: when the session has no candidate left every query gives its empty
\* result: the entropy is 0, the gain of every pair is 0, the confidence is
\* 0, the selector and the next question are None, the prediction is None,
\* and a guess that was made returned None
C26_ConsultasSobreVacio ==
    personajes_candidatos = <<>>
        => /\ CalcularEntropia(personajes_candidatos) = 0
           /\ \A par \in Elementos(ParesEnOrden(caracteristicas_disponibles, personajes))
                            \cup PreguntasExternas :
                 CalcularGananciaBinaria(personajes_candidatos, par[1], par[2]) = 0
           /\ ObtenerConfianza = <<0, 1>>
           /\ SeleccionarMejorPreguntaBinaria(caracteristicas_disponibles,
                  personajes_candidatos, preguntas_realizadas) = <<>>
           /\ ObtenerSiguientePregunta = <<>>
           /\ HacerPrediccion(personajes_candidatos) = <<>>
           /\ ultima_llamada = "intentar_adivinanza" => resultado = <<>>

\* the answers on record excluded every entity of a collection that has
\* askable pairs, and a guess was made
C26_Testigo ==
    /\ personajes_candidatos = <<>>
    /\ ParesEnOrden(caracteristicas_disponibles, personajes) # <<>>
    /\ historial_preguntas # <<>>
    /\ ultima_llamada = "intentar_adivinanza"

\* the normalized texts of the values, neither missing nor null nor
\* numeric, that the entities of a list carry for a feature
ValoresExhibidos(lista, caracteristica) ==
    {Normalizar(Str(item[2])) :
        item \in {it \in UNION {Elementos(lista[i].caracteristicas) :
                                   i \in 1..Len(lista)} :
                     /\ it[1] = caracteristica
                     /\ it[2] # None
                     /\ ~EsNumerico(it[2])}}

\* C27: the list obtener_valores_posibles returns is strictly ascending, so
\* sorted and free of duplicates, and its elements are exactly the
\* normalized non-numeric values the candidates that were passed carry for
\* the feature, whatever the rest of the collection carries
C27_ValoresDeLosCandidatos ==
    (pc = "devuelto" /\ ultima_llamada = "obtener_valores_posibles")
        => LET valores == resultado[1]
           IN /\ \A i, j \in 1..Len(valores) :
                    i < j => StrMenor(valores[i], valores[j])
              /\ Elementos(valores) = ValoresExhibidos(Arg.candidatos, Arg.caracteristica)

\* the call was made on a part of the collection and returned fewer values
\* than the catalog holds for the feature
C27_Testigo ==
    /\ pc = "devuelto"
    /\ ultima_llamada = "obtener_valores_posibles"
    /\ resultado[1] # <<>>
    /\ Len(Arg.candidatos) < Len(personajes)
    /\ Elementos(resultado[1]) # Get(caracteristicas_disponibles, Arg.caracteristica)
    /\ Elementos(resultado[1]) # ValoresExhibidos(personajes, Arg.caracteristica)

\* C28: every procesar_respuesta appends exactly one triple to the end of
\* the history and adds its pair to the asked set, reiniciar empties both,
\* no other call changes either, and in every state the asked set is the
\* set of the pairs of the triples of the history
C28_HistorialYPreguntasRealizadas ==
    /\ [](preguntas_realizadas = {ParDe(historial_preguntas[i]) :
                                     i \in 1..Len(historial_preguntas)})
    /\ [][IF ultima_llamada' = "procesar_respuesta"
          THEN /\ Len(historial_preguntas') = Len(historial_preguntas) + 1
               /\ SubSeq(historial_preguntas', 1, Len(historial_preguntas))
                     = historial_preguntas
               /\ DOMAIN historial_preguntas'[Len(historial_preguntas')]
                     = {"caracteristica", "valor", "respuesta"}
               /\ preguntas_realizadas' = preguntas_realizadas
                     \cup {ParDe(historial_preguntas'[Len(historial_preguntas')])}
          ELSE IF ultima_llamada' = "reiniciar"
          THEN historial_preguntas' = <<>> /\ preguntas_realizadas' = {}
          ELSE /\ historial_preguntas' = historial_preguntas
               /\ preguntas_realizadas' = preguntas_realizadas]_vars

\* the same pair was answered twice, with a yes and with a no: two triples
\* in the history, one pair in the asked set
C28_Testigo ==
    /\ ultima_llamada = "procesar_respuesta"
    /\ Len(historial_preguntas) = 2
    /\ Cardinality(preguntas_realizadas) = 1
    /\ historial_preguntas[1].respuesta # historial_preguntas[2].respuesta

\* C29: agregar_personaje with a name the store already holds raises
\* IntegrityError, which an accepted addition does not, and leaves every
\* row as it was; with a new name it appends one row; the limit workflow
\* leaves the store as it was when the name typed is already in it; and no
\* two rows ever carry the same name
C29_NombreExistenteSeRechaza ==
    /\ [](\A i, j \in 1..Len(db) : db[i].nombre = db[j].nombre => i = j)
    /\ [][ultima_llamada' = "agregar_personaje"
            => IF ExisteEnDb(db, argumentos'[1].nombre)
               THEN /\ db' = db
                    /\ resultado'[1].error = "IntegrityError"
               ELSE /\ db' = Append(db, argumentos'[1])
                    /\ resultado'[1].error = ""]_vars
    /\ [][(/\ ultima_llamada' = "_manejar_limite_intentos"
           /\ ExisteEnDb(db, argumentos'[1].nombre))
            => db' = db]_vars

\* an addition was rejected for a name whose stored features differ from
\* the ones passed
C29_Testigo ==
    /\ ultima_llamada = "agregar_personaje"
    /\ resultado[1].error = "IntegrityError"
    /\ \E i \in 1..Len(db) :
          /\ db[i].nombre = argumentos[1].nombre
          /\ db[i].caracteristicas # argumentos[1].caracteristicas

\* the normalized text of the value an entity carries for a feature, or
\* <<>> when the value is missing, null or numeric
ValorDiscreto(personaje, caracteristica) ==
    LET valor_personaje == ValorDe(personaje, caracteristica)
    IN IF valor_personaje = None \/ EsNumerico(valor_personaje) THEN <<>>
       ELSE <<Normalizar(Str(valor_personaje))>>

\* the discrete features of the entity thought of tell it from every other
\* entity of the collection
PensadoSeDistingue ==
    \A otro \in Elementos(personajes) :
        otro.nombre # personaje_pensado
            => \E caracteristica \in CaracteristicasNombradas :
                  ValorDiscreto(otro, caracteristica)
                      # ValorDiscreto(Pensado, caracteristica)

\* C30: a play-through answered truthfully for an entity of the collection
\* that its discrete features tell from every other ends with the confirmed
\* guess of that entity: it never reaches the guess limit and never ends
\* for want of questions
C30_VerazTerminaEnAcierto ==
    PensadoSeDistingue
        => /\ pc # "limite"
           /\ desenlace \in {"", "correcto"}
           /\ desenlace = "correcto" => resultado[1].nombre = personaje_pensado

\* C31: every intentar_adivinanza adds exactly one to the attempt counter,
\* also when it returns None for want of candidates; reiniciar sets the
\* counter to 0; no other call changes it; so the counter is the number of
\* intentar_adivinanza calls since the session was created or last reset
C31_ContadorCuentaLasLlamadas ==
    /\ [](intentos_adivinanza \in Nat)
    /\ [][IF ultima_llamada' = "intentar_adivinanza"
          THEN intentos_adivinanza' = intentos_adivinanza + 1
          ELSE IF ultima_llamada' = "reiniciar"
          THEN intentos_adivinanza' = 0
          ELSE intentos_adivinanza' = intentos_adivinanza]_vars

\* a guess attempt on an empty candidate list returned None and was counted
C31_Testigo ==
    /\ ultima_llamada = "intentar_adivinanza"
    /\ personajes_candidatos = <<>>
    /\ resultado = <<>>
    /\ intentos_adivinanza = 1

\* the distinct (caracteristica, valor) pairs of the catalog
ParesDelCatalogo ==
    UNION {{<<caracteristicas_disponibles[i][1], valor>> :
               valor \in caracteristicas_disponibles[i][2]} :
           i \in 1..Len(caracteristicas_disponibles)}

\* C32: when the player does at some point type a recognised answer, the
\* loop of every play-through ends: with a confirmed guess, with the guess
\* limit reached, or for want of a question; and the questions answered in
\* a play-through are never more than the distinct pairs of the catalog
C32_PartidaTermina ==
    /\ [](Len(preguntas_partida) <= Cardinality(ParesDelCatalogo))
    /\ (pc \in {"bucle", "pregunta", "adivinanza"})
          ~> (pc = "limite" \/ desenlace \in {"correcto", "sin_preguntas"})

\* a play-through ended for want of a question after as many answers as the
\* catalog has pairs
C32_Testigo ==
    /\ desenlace = "sin_preguntas"
    /\ Len(preguntas_partida) >= 2
    /\ Len(preguntas_partida) = Cardinality(ParesDelCatalogo)

\* C33: in a play-through a guess attempt never follows another without an
\* answered question between them: when intentar_adivinanza is called, the
\* call of the session before it was not intentar_adivinanza, whatever the
\* player typed in between
C33_UnaRespuestaEntreAdivinanzas ==
    [][intentos_adivinanza' = intentos_adivinanza + 1
          => ultima_llamada # "intentar_adivinanza"]_vars

\* C34: a guess attempt leaves the candidates, the asked set, the history
\* and the predictor as they were and returns the first candidate; within a
\* play-through the first candidate stays the first for as long as it is a
\* candidate; so the entity of a rejected guess is returned by the next
\* guess unless an answer removed it in between
C34_AdivinarSoloCuenta ==
    /\ [][intentos_adivinanza' > intentos_adivinanza
          => /\ UNCHANGED <<personajes_candidatos, preguntas_realizadas,
                           historial_preguntas, predictor_vars>>
             /\ resultado' = IF personajes_candidatos = <<>> THEN <<>>
                             ELSE <<Head(personajes_candidatos)>>
             /\ (ultima_llamada = "intentar_adivinanza" => resultado' = resultado)]_vars
    /\ [][(/\ pc # "menu"
           /\ personajes_candidatos # <<>>
           /\ Head(personajes_candidatos) \in Elementos(personajes_candidatos'))
            => Head(personajes_candidatos') = Head(personajes_candidatos)]_vars
    /\ []((pc = "adivinanza" /\ resultado # <<>>)
            => resultado[1] \in Elementos(personajes_candidatos))

\* a second guess is put to the player, the first having been rejected,
\* with several candidates left and an answer in the history
C34_Testigo ==
    /\ pc = "adivinanza"
    /\ intentos_adivinanza = 2
    /\ Len(personajes_candidatos) >= 2
    /\ historial_preguntas # <<>>
    /\ resultado = <<Head(personajes_candidatos)>>

\* C35: the question put to the player asks a value that some candidate
\* exhibits, so a yes to it leaves at least one candidate; a no to it
\* leaves none exactly when every candidate has the value asked; and the
\* candidates of a play-through become empty only by such a no
C35_PreguntaSobreValorExhibido ==
    /\ [](pc = "pregunta"
            => LET caracteristica == pregunta_data[1].caracteristica
                   valor == pregunta_data[1].valor
               IN /\ valor \in ValoresExhibidos(personajes_candidatos, caracteristica)
                  /\ \E personaje \in Elementos(personajes_candidatos) :
                        TieneElValor(personaje, caracteristica, valor)
                  /\ FiltrarPersonajesBinario(personajes_candidatos,
                         caracteristica, valor, TRUE) # <<>>
                  /\ FiltrarPersonajesBinario(personajes_candidatos,
                         caracteristica, valor, FALSE) = <<>>
                       <=> \A personaje \in Elementos(personajes_candidatos) :
                              TieneElValor(personaje, caracteristica, valor))
    /\ [][(pc = "pregunta" /\ personajes_candidatos' = <<>>)
            => /\ ~historial_preguntas'[Len(historial_preguntas')].respuesta
               /\ \A personaje \in Elementos(personajes_candidatos) :
                      TieneElValor(personaje, pregunta_data[1].caracteristica,
                                   pregunta_data[1].valor)]_vars

\* the player answered yes to a question about a value that the entities
\* carry in another spelling; some candidates were removed, some remain
C35_Testigo ==
    /\ pc = "bucle"
    /\ ultima_llamada = "procesar_respuesta"
    /\ historial_preguntas[Len(historial_preguntas)].respuesta
    /\ personajes_candidatos # <<>>
    /\ Len(personajes_candidatos) < Len(instantanea)
    /\ \A personaje \in Elementos(personajes_candidatos) :
          ValorDe(personaje, historial_preguntas[Len(historial_preguntas)].caracteristica)
              # StrVal(historial_preguntas[Len(historial_preguntas)].valor)

\* C36: the list of questions the controller keeps for the play-through is
\* at every moment the history of the session, triple by triple and in the
\* same order; the answer to a question either appends one triple, the pair
\* asked with the answer given, to both or leaves both as they were
C36_TrazaIgualAlHistorial ==
    /\ [](preguntas_partida = historial_preguntas)
    /\ [][pc = "pregunta"
          => \/ UNCHANGED <<preguntas_partida, historial_preguntas>>
             \/ \E respuesta \in BOOLEAN :
                   LET triple == [caracteristica |-> pregunta_data[1].caracteristica,
                                  valor |-> pregunta_data[1].valor,
                                  respuesta |-> respuesta]
                   IN /\ preguntas_partida' = Append(preguntas_partida, triple)
                      /\ historial_preguntas' = Append(historial_preguntas, triple)]_vars

\* a play-through in which two questions were answered, one with yes and
\* one with no, and a guess was rejected
C36_Testigo ==
    /\ pc = "bucle"
    /\ intentos_adivinanza >= 1
    /\ Len(preguntas_partida) = 2
    /\ preguntas_partida[1].respuesta # preguntas_partida[2].respuesta

====
